---- MODULE Spec2Model ----
(***************************************************************************)
(* A model of node-xmlrpc: the Deserializer (an event-driven state machine *)
(* fed by a SAX tokenizer), the Serializer (an explicit-stack walk that    *)
(* writes into an XML builder) and the helpers both use.                   *)
(*                                                                         *)
(* JavaScript values are pairs <<kind, payload>>:                          *)
(*   <<"undefined", 0>>, <<"null", 0>>, <<"boolean", b>>,                  *)
(*   <<"number", <<m, e>>>>   the number m / 10^e (e = 0: an integer),     *)
(*   <<"string", s>>          s a sequence of one-character strings,       *)
(*   <<"buffer", bs>>         bs a sequence of bytes 0..255,               *)
(*   <<"date", d>>            d = <<"parsed", s>>: new Date(s) of the ISO  *)
(*                            string s; d = <<"parts", utc, local, tzo>>:  *)
(*                            a Date given by what its getters return,     *)
(*   <<"array", vs>>          vs a sequence of values,                     *)
(*   <<"object", ms>>         ms a sequence of <<key, value>>, keys        *)
(*                            distinct, in insertion order.                *)
(***************************************************************************)
EXTENDS Integers, Sequences, FiniteSets, TLC

VARIABLES
    type,          \* Deserializer.type: "null" | "methodresponse" | "methodcall"
    responseType,  \* Deserializer.responseType: "null" | "params" | "fault"
    stack,         \* Deserializer.stack: the value stack
    marks,         \* Deserializer.marks: offsets into stack (0-based, as in the code)
    data,          \* Deserializer.data: the text chunks since the last opentag
    methodname,    \* Deserializer.methodname: <<"null",0>> or a string value
    value,         \* Deserializer.value: the bare-value flag
    callback,      \* Deserializer.callback: "null" | "response" | "call"
    error,         \* Deserializer.error: <<"null",0>> or an Error
    delivered,     \* the calls made to the caller's callback, in order
    nev,           \* number of tokenizer/stream events handled so far
    input,         \* Serializer: the envelope being encoded
    frames,        \* serializeValue: the explicit stack of frames
    xml,           \* the XML builder's document: an arena of nodes
    pending,       \* serializeMethodCall: the params not yet serialized
    pc,            \* where the encode/transport/decode pipeline stands
    queue,         \* tokenizer events of the document not yet delivered
    opts,          \* dateFormatter.opts of the exported DateFormatter instance
    others,        \* the Deserializer instances other than the one handling events
    calls,         \* the calls made on the exported API so far, with what they returned
    jar,           \* Cookies.cookies: the stored cookies, in insertion order
    now,           \* the clock new Date() reads
    headers,       \* Client.options.headers["Cookie"], kept from request to request
    reported,      \* the calls Client.methodCall itself made to the caller's callback
    listeners      \* Server: the event names that have a listener

desVars == <<type, responseType, stack, marks, data, methodname, value, callback,
             error, delivered, nev>>
serVars == <<input, frames, xml, pending, pc, queue, opts>>
vars == <<type, responseType, stack, marks, data, methodname, value, callback,
          error, delivered, nev, input, frames, xml, pending, pc, queue, opts,
          others, calls, jar, now, headers, reported, listeners>>
cliVars == <<jar, now, headers, reported, listeners>>

-----------------------------------------------------------------------------
(* Bounds of the model.                                                    *)

MaxEvents == 5      \* events handled by one Deserializer under Spec

-----------------------------------------------------------------------------
(* JavaScript values.                                                      *)

Undefined == <<"undefined", 0>>
Null == <<"null", 0>>
MkBool(b) == <<"boolean", b>>
MkInt(n) == <<"number", <<n, 0>>>>
MkStr(s) == <<"string", s>>
MkBuf(bs) == <<"buffer", bs>>
MkArr(vs) == <<"array", vs>>
MkObj(ms) == <<"object", ms>>
Kind(v) == v[1]
Val(v) == v[2]

\* Object property read obj[key]: undefined when the key is absent.
GetProp(v, key) ==
    IF Kind(v) = "object" /\ \E i \in 1..Len(Val(v)) : Val(v)[i][1] = key
    THEN Val(v)[CHOOSE i \in 1..Len(Val(v)) : Val(v)[i][1] = key][2]
    ELSE Undefined

\* Object property write obj[key] = val: overwrite in place or append.
SetProp(ms, key, val) ==
    IF \E i \in 1..Len(ms) : ms[i][1] = key
    THEN [i \in 1..Len(ms) |-> IF ms[i][1] = key THEN <<key, val>> ELSE ms[i]]
    ELSE Append(ms, <<key, val>>)

RECURSIVE ValEq(_, _)
\* Structural (deep) equality of two values; object members compare by key.
ValEq(a, b) ==
    /\ Kind(a) = Kind(b)
    /\ CASE Kind(a) = "array" ->
              /\ Len(Val(a)) = Len(Val(b))
              /\ \A i \in 1..Len(Val(a)) : ValEq(Val(a)[i], Val(b)[i])
         [] Kind(a) = "object" ->
              /\ Len(Val(a)) = Len(Val(b))
              /\ \A i \in 1..Len(Val(a)) :
                    \E j \in 1..Len(Val(b)) :
                        /\ Val(a)[i][1] = Val(b)[j][1]
                        /\ ValEq(Val(a)[i][2], Val(b)[j][2])
         [] OTHER -> Val(a) = Val(b)

\* JavaScript truthiness, as used by `!x` and `x ? a : b`.
Truthy(v) ==
    CASE Kind(v) \in {"undefined", "null"} -> FALSE
      [] Kind(v) = "boolean" -> Val(v)
      [] Kind(v) = "number" -> Val(v)[1] # 0
      [] Kind(v) = "string" -> Len(Val(v)) > 0
      [] OTHER -> TRUE

-----------------------------------------------------------------------------
(* Strings are sequences of one-character strings.                         *)

Digits == <<"0", "1", "2", "3", "4", "5", "6", "7", "8", "9">>
IsDigit(c) == \E i \in 1..10 : Digits[i] = c
DigitVal(c) == (CHOOSE i \in 1..10 : Digits[i] = c) - 1
IsSpace(c) == c \in {" ", "\t", "\n", "\r"}

RECURSIVE Join(_)
\* Array.prototype.join(""): the concatenation of the chunks.
Join(chunks) ==
    IF chunks = <<>> THEN <<>> ELSE Head(chunks) \o Join(Tail(chunks))

RECURSIVE NatToStr(_)
NatToStr(n) ==
    IF n < 10 THEN <<Digits[n + 1]>>
    ELSE NatToStr(n \div 10) \o <<Digits[(n % 10) + 1]>>

\* String(n) for an integer n.
IntToStr(n) == IF n < 0 THEN <<"-">> \o NatToStr(-n) ELSE NatToStr(n)

RECURSIVE DigitsVal(_, _)
\* The number denoted by a sequence of digits, continuing from acc.
DigitsVal(s, acc) ==
    IF s = <<>> THEN acc ELSE DigitsVal(Tail(s), acc * 10 + DigitVal(Head(s)))

RECURSIVE SkipSpace(_)
SkipSpace(s) ==
    IF s # <<>> /\ IsSpace(Head(s)) THEN SkipSpace(Tail(s)) ELSE s

RECURSIVE DigitPrefix(_)
\* The longest prefix of s made of digits.
DigitPrefix(s) ==
    IF s # <<>> /\ IsDigit(Head(s)) THEN <<Head(s)>> \o DigitPrefix(Tail(s))
    ELSE <<>>

\* NaN is kept apart from the other numbers: it is never stored, only tested.
NaN == <<"NaN", 0>>
IsNaN(v) == Kind(v) = "NaN"

\* parseInt(data, 10): leading white space, an optional sign, then the longest
\* run of digits; NaN when that run is empty.  What follows the digits is ignored.
ParseInt(s) ==
    LET t == SkipSpace(s)
        neg == t # <<>> /\ Head(t) = "-"
        u == IF t # <<>> /\ Head(t) \in {"-", "+"} THEN Tail(t) ELSE t
        ds == DigitPrefix(u)
    IN  IF ds = <<>> THEN NaN
        ELSE MkInt(IF neg THEN -DigitsVal(ds, 0) ELSE DigitsVal(ds, 0))

RECURSIVE Pow10(_)
Pow10(e) == IF e = 0 THEN 1 ELSE 10 * Pow10(e - 1)

RECURSIVE Normalize(_, _)
\* The pair <<m, e>> of m / 10^e with trailing decimal zeros removed.
Normalize(m, e) ==
    IF e > 0 /\ m % 10 = 0 THEN Normalize(m \div 10, e - 1) ELSE <<m, e>>

\* parseFloat(data) on decimal literals without exponent: leading white space,
\* optional sign, digits, optional "." and digits; NaN when no digit is read.
\* (The text alphabets of the model hold no "e", "E" or "Infinity".)
ParseFloat(s) ==
    LET t == SkipSpace(s)
        neg == t # <<>> /\ Head(t) = "-"
        u == IF t # <<>> /\ Head(t) \in {"-", "+"} THEN Tail(t) ELSE t
        ip == DigitPrefix(u)
        r == SubSeq(u, Len(ip) + 1, Len(u))
        fp == IF r # <<>> /\ Head(r) = "." THEN DigitPrefix(Tail(r)) ELSE <<>>
        m == DigitsVal(fp, DigitsVal(ip, 0))
    IN  IF ip = <<>> /\ fp = <<>> THEN NaN
        ELSE <<"number", Normalize(IF neg THEN -m ELSE m, Len(fp))>>

RECURSIVE ZeroPadStr(_, _)
\* DateFormatter.zeroPad on the decimal text of a number.
ZeroPadStr(padded, length) ==
    IF Len(padded) < length THEN ZeroPadStr(<<"0">> \o padded, length) ELSE padded

ZeroPad(digit, length) == ZeroPadStr(IntToStr(digit), length)

\* String(x) for a number m / 10^e (plain decimal notation).
NumToStr(n) ==
    LET m == n[1]
        e == n[2]
        a == IF m < 0 THEN -m ELSE m
        sign == IF m < 0 THEN <<"-">> ELSE <<>>
    IN  IF e = 0 THEN IntToStr(m)
        ELSE sign \o NatToStr(a \div Pow10(e)) \o <<".">>
                  \o ZeroPadStr(NatToStr(a % Pow10(e)), e)

-----------------------------------------------------------------------------
(* Base64, as Buffer.toString("base64") and Buffer.from(s, "base64").      *)

B64Chars ==
    <<"A", "B", "C", "D", "E", "F", "G", "H", "I", "J", "K", "L", "M", "N", "O", "P",
      "Q", "R", "S", "T", "U", "V", "W", "X", "Y", "Z", "a", "b", "c", "d", "e", "f",
      "g", "h", "i", "j", "k", "l", "m", "n", "o", "p", "q", "r", "s", "t", "u", "v",
      "w", "x", "y", "z", "0", "1", "2", "3", "4", "5", "6", "7", "8", "9", "+", "/">>

IsB64(c) == c \in {"-", "_"} \/ \E i \in 1..64 : B64Chars[i] = c
B64Val(c) ==
    IF c = "-" THEN 62 ELSE IF c = "_" THEN 63
    ELSE (CHOOSE i \in 1..64 : B64Chars[i] = c) - 1

RECURSIVE B64Encode(_)
B64Encode(bs) ==
    IF bs = <<>> THEN <<>>
    ELSE IF Len(bs) = 1 THEN
        <<B64Chars[(bs[1] \div 4) + 1], B64Chars[((bs[1] % 4) * 16) + 1], "=", "=">>
    ELSE IF Len(bs) = 2 THEN
        <<B64Chars[(bs[1] \div 4) + 1],
          B64Chars[((bs[1] % 4) * 16 + bs[2] \div 16) + 1],
          B64Chars[((bs[2] % 16) * 4) + 1], "=">>
    ELSE
        <<B64Chars[(bs[1] \div 4) + 1],
          B64Chars[((bs[1] % 4) * 16 + bs[2] \div 16) + 1],
          B64Chars[((bs[2] % 16) * 4 + bs[3] \div 64) + 1],
          B64Chars[(bs[3] % 64) + 1]>> \o B64Encode(SubSeq(bs, 4, Len(bs)))

RECURSIVE B64Sextets(_)
\* The 6-bit values of the text up to the first "=", other characters skipped.
B64Sextets(s) ==
    IF s = <<>> \/ Head(s) = "=" THEN <<>>
    ELSE IF IsB64(Head(s)) THEN <<B64Val(Head(s))>> \o B64Sextets(Tail(s))
    ELSE B64Sextets(Tail(s))

RECURSIVE B64Bytes(_)
B64Bytes(q) ==
    IF Len(q) < 2 THEN <<>>
    ELSE IF Len(q) = 2 THEN <<q[1] * 4 + q[2] \div 16>>
    ELSE IF Len(q) = 3 THEN
        <<q[1] * 4 + q[2] \div 16, (q[2] % 16) * 16 + q[3] \div 4>>
    ELSE <<q[1] * 4 + q[2] \div 16, (q[2] % 16) * 16 + q[3] \div 4,
           (q[3] % 4) * 64 + q[4]>> \o B64Bytes(SubSeq(q, 5, Len(q)))

B64Decode(s) == B64Bytes(B64Sextets(s))

-----------------------------------------------------------------------------
(* DateFormatter (date_formatter.mts), as far as the decoder uses it.      *)

Abs(n) == IF n < 0 THEN -n ELSE n

\* Date.prototype.getTimezoneOffset() of the machine: minutes, positive = behind UTC.
TimezoneOffsets == {0, -330, 300}

\* DateFormatter.formatCurrentOffset, given getTimezoneOffset()'s result.
FormatCurrentOffset(offset) ==
    IF offset = 0 THEN <<"Z">>
    ELSE LET sign == IF offset < 0 THEN "+" ELSE "-"
             hh == ZeroPad(Abs(offset \div 60), 2)
             mm == ZeroPad(Abs(offset) % 60, 2)
         IN  <<sign>> \o hh \o <<":">> \o mm

\* s has n digits from position p on.
DigitsAt(s, p, n) == p + n - 1 <= Len(s) /\ \A i \in p..(p + n - 1) : IsDigit(s[i])
CharAt(s, p, c) == p <= Len(s) /\ s[p] = c

\* Position after an optional separator sep and two digits at p, or 0.
OptSepTwo(s, p, sep) ==
    IF CharAt(s, p, sep) /\ DigitsAt(s, p + 1, 2) THEN p + 3
    ELSE IF DigitsAt(s, p, 2) THEN p + 2 ELSE 0

\* Position after the date portion ([0-9]{4})(-?[0-9]{2})(-?[0-9]{2}) at p, or 0.
DateEnd(s, p) ==
    IF ~DigitsAt(s, p, 4) THEN 0
    ELSE LET q == OptSepTwo(s, p + 4, "-")
         IN  IF q = 0 THEN 0 ELSE OptSepTwo(s, q, "-")

RECURSIVE DigitRunEnd(_, _)
\* Position after the run of digits that starts at p.
DigitRunEnd(s, p) ==
    IF p <= Len(s) /\ IsDigit(s[p]) THEN DigitRunEnd(s, p + 1) ELSE p

\* The groups of DateFormatter.ISO8601 are read left to right; each step takes
\* the match so far (m.at: the next position) and adds the groups it matched.

\* ([0-9]{4})([-]?([0-9]{2}))([-]?([0-9]{2})) at the leftmost place it matches
MatchDate(time) ==
    LET starts == {p \in 1..Len(time) : DateEnd(time, p) # 0}
    IN  IF starts = {} THEN [ok |-> FALSE]
        ELSE LET p0 == CHOOSE p \in starts : \A q \in starts : p <= q
             IN  [ok |-> TRUE, at |-> DateEnd(time, p0),
                  g1 |-> SubSeq(time, p0, p0 + 3),
                  g3 |-> SubSeq(time, OptSepTwo(time, p0 + 4, "-") - 2,
                                OptSepTwo(time, p0 + 4, "-") - 1),
                  g5 |-> SubSeq(time, DateEnd(time, p0) - 2, DateEnd(time, p0) - 1)]

\* (T([0-9]{2}) ... )?  : group 7, or no time portion at all
MatchHour(time, m) ==
    IF CharAt(time, m.at, "T") /\ DigitsAt(time, m.at + 1, 2)
    THEN [g1 |-> m.g1, g3 |-> m.g3, g5 |-> m.g5, hasT |-> TRUE, at |-> m.at + 3,
          g7 |-> SubSeq(time, m.at + 1, m.at + 2)]
    ELSE [g1 |-> m.g1, g3 |-> m.g3, g5 |-> m.g5, hasT |-> FALSE, at |-> m.at,
          g7 |-> <<>>]

\* (:?([0-9]{2}))?  : an optional two-digit group (11, then 14)
MatchTwo(time, m) ==
    IF m.hasT /\ OptSepTwo(time, m.at, ":") # 0
    THEN [at |-> OptSepTwo(time, m.at, ":"),
          g |-> SubSeq(time, OptSepTwo(time, m.at, ":") - 2,
                       OptSepTwo(time, m.at, ":") - 1)]
    ELSE [at |-> m.at, g |-> <<>>]

\* (\.([0-9]+))?  : group 16
MatchFraction(time, hasT, at) ==
    IF hasT /\ CharAt(time, at, ".") /\ DigitsAt(time, at + 1, 1)
    THEN [at |-> DigitRunEnd(time, at + 1),
          g |-> SubSeq(time, at + 1, DigitRunEnd(time, at + 1) - 1)]
    ELSE [at |-> at, g |-> <<>>]

\* (Z|([+-]([0-9]{2}(:?([0-9]{2}))?)))?  : group 17, with "00" appended when
\* group 19 matched without group 20; <<>> stands for undefined
MatchZone(time, hasT, at) ==
    IF hasT /\ CharAt(time, at, "Z") THEN <<"Z">>
    ELSE IF /\ hasT
            /\ (CharAt(time, at, "+") \/ CharAt(time, at, "-"))
            /\ DigitsAt(time, at + 1, 2)
    THEN IF OptSepTwo(time, at + 3, ":") = 0
         THEN SubSeq(time, at, at + 2) \o <<"0", "0">>
         ELSE SubSeq(time, at, OptSepTwo(time, at + 3, ":") - 1)
    ELSE <<>>

Or(g, dflt) == IF g = <<>> THEN dflt ELSE g

\* The string handed to new Date(...), from the groups.
DateString(d, g11, g14, g16, zone, offset) ==
    d.g1 \o <<"-">> \o d.g3 \o <<"-">> \o d.g5 \o <<"T">>
        \o Or(d.g7, <<"0", "0">>) \o <<":">> \o Or(g11, <<"0", "0">>)
        \o <<":">> \o Or(g14, <<"0", "0">>) \o <<".">> \o Or(g16, <<"0", "0", "0">>)
        \o (IF zone # <<>> THEN zone ELSE FormatCurrentOffset(offset))

DecodeTime(time, h, mi, offset) ==
    LET se == MatchTwo(time, [hasT |-> h.hasT, at |-> mi.at])
        fr == MatchFraction(time, h.hasT, se.at)
    IN  DateString(h, mi.g, se.g, fr.g, MatchZone(time, h.hasT, fr.at), offset)

DecodeMatched(time, h, offset) == DecodeTime(time, h, MatchTwo(time, h), offset)

\* DateFormatter.decodeIso8601: <<"throw", 0>> when ISO8601 does not match,
\* else the Date made from the rebuilt string.  offset is the machine's
\* getTimezoneOffset() at decode time, used when the text names no zone.
DecodeIso8601(time, offset) ==
    IF ~MatchDate(time).ok THEN <<"throw", 0>>
    ELSE <<"date", <<"parsed",
                     DecodeMatched(time, MatchHour(time, MatchDate(time)), offset)>>>>

-----------------------------------------------------------------------------
(* String(v), as endStruct applies it to a member key.                     *)

RECURSIVE ToStr(_)
RECURSIVE JoinComma(_)
\* Array.prototype.join(","): null and undefined elements give "".
JoinComma(vs) ==
    IF vs = <<>> THEN <<>>
    ELSE LET h == IF Kind(Head(vs)) \in {"undefined", "null"} THEN <<>>
                  ELSE ToStr(Head(vs))
         IN  IF Len(vs) = 1 THEN h ELSE h \o <<",">> \o JoinComma(Tail(vs))

\* Buffer and Date have environment-dependent texts (UTF-8 decoding, the local
\* calendar); the model keeps them apart from every other text by a bracket tag.
ToStr(v) ==
    CASE Kind(v) = "string" -> Val(v)
      [] Kind(v) = "number" -> NumToStr(Val(v))
      [] Kind(v) = "boolean" ->
            IF Val(v) THEN <<"t", "r", "u", "e">> ELSE <<"f", "a", "l", "s", "e">>
      [] Kind(v) = "null" -> <<"n", "u", "l", "l">>
      [] Kind(v) = "undefined" -> <<"u", "n", "d", "e", "f", "i", "n", "e", "d">>
      [] Kind(v) = "array" -> JoinComma(Val(v))
      [] Kind(v) = "object" -> <<"[object Object]">>
      [] Kind(v) = "buffer" -> <<"[Buffer]">> \o [i \in 1..Len(Val(v)) |-> ToString(Val(v)[i])]
      [] Kind(v) = "date" ->
            IF Val(v)[1] = "parsed" THEN <<"[Date]">> \o Val(v)[2]
            ELSE <<"[Date]">> \o [i \in 1..7 |-> ToString(Val(v)[3][i])]
      [] OTHER -> <<"[", Kind(v), "]">>

-----------------------------------------------------------------------------
(* Deserializer (src/unnamed/part_000).                                    *)

MkError(msg, detail) == <<"Error", msg, detail>>

\* createFault as a slip would write it: faultCode read from the wrong member.
CreateFault_WrongMember(fault) ==
    LET fs == GetProp(fault, <<"f", "a", "u", "l", "t", "S", "t", "r", "i", "n", "g">>)
    IN  <<"Error", "XML-RPC fault", IF Truthy(fs) THEN fs ELSE Undefined, fs, fs, fs>>

\* createFault inside onDone: fault?.faultString and fault?.faultCode.
FaultCodeKey == <<"f", "a", "u", "l", "t", "C", "o", "d", "e">>
FaultStringKey == <<"f", "a", "u", "l", "t", "S", "t", "r", "i", "n", "g">>
CreateFault(fault) ==
    LET fs == GetProp(fault, FaultStringKey)
        fc == GetProp(fault, FaultCodeKey)
    IN  <<"Error", "XML-RPC fault", IF Truthy(fs) THEN fs ELSE Undefined, fc, fc, fs>>
IsFault(err) == err[2] = "XML-RPC fault"
FaultCodeOf(err) == err[5]
FaultStringOf(err) == err[6]

\* The response wrapper with the envelope checks moved before the count check.
ResponseCallback_TypeFirst(err, result) ==
    IF err # Null THEN <<"error", err>>
    ELSE IF type # "methodresponse" THEN
        <<"error", MkError("Not a method response", <<>>)>>
    ELSE IF responseType = "null" THEN
        <<"error", MkError("Invalid method response", <<>>)>>
    ELSE IF Len(result) > 1 THEN
        <<"error", MkError("Response has more than one param", <<>>)>>
    ELSE <<"success", IF result = <<>> THEN Undefined ELSE result[1]>>

\* The wrapper deserializeMethodResponse installs as this.callback.
ResponseCallback(err, result) ==
    IF err # Null THEN <<"error", err>>
    ELSE IF Len(result) > 1 THEN
        <<"error", MkError("Response has more than one param", <<>>)>>
    ELSE IF type # "methodresponse" THEN
        <<"error", MkError("Not a method response", <<>>)>>
    ELSE IF responseType = "null" THEN
        <<"error", MkError("Invalid method response", <<>>)>>
    ELSE <<"success", IF result = <<>> THEN Undefined ELSE result[1]>>

\* The call wrapper without the check of the method name.
CallCallback_NoNameCheck(err, result) ==
    IF err # Null THEN <<"error", err>>
    ELSE IF type # "methodcall" THEN
        <<"error", MkError("Not a method call", <<>>)>>
    ELSE <<"success", methodname, result>>

\* The wrapper deserializeMethodCall installs as this.callback.
CallCallback(err, result) ==
    IF err # Null THEN <<"error", err>>
    ELSE IF type # "methodcall" THEN
        <<"error", MkError("Not a method call", <<>>)>>
    ELSE IF ~Truthy(methodname) THEN
        <<"error", MkError("Method call did not contain a method name", <<>>)>>
    ELSE <<"success", methodname, result>>

\* this.callback?.(err, result): the caller's callback runs once, or not at all
\* while no callback is installed.
Invoke(err, result) ==
    delivered' =
        CASE callback = "response" -> Append(delivered, ResponseCallback(err, result))
          [] callback = "call" -> Append(delivered, CallCallback(err, result))
          [] OTHER -> delivered

\* onDone without the check that every ARRAY and STRUCT was closed.
OnDone_IgnoresMarks ==
    /\ IF error = Null
       THEN IF type = "null"
            THEN Invoke(MkError("Invalid XML-RPC message", <<>>), <<>>)
            ELSE IF responseType = "fault"
            THEN Invoke(CreateFault(IF stack = <<>> THEN Undefined ELSE stack[1]), <<>>)
            ELSE Invoke(Null, stack)
       ELSE UNCHANGED delivered
    /\ UNCHANGED <<type, responseType, stack, marks, data, methodname, value,
                   callback, error>>

\* onDone: the parser's "end" event.
OnDone ==
    /\ IF error = Null
       THEN IF type = "null" \/ Len(marks) > 0
            THEN Invoke(MkError("Invalid XML-RPC message", <<>>), <<>>)
            ELSE IF responseType = "fault"
            THEN Invoke(CreateFault(IF stack = <<>> THEN Undefined ELSE stack[1]), <<>>)
            ELSE Invoke(Null, stack)
       ELSE UNCHANGED delivered
    /\ UNCHANGED <<type, responseType, stack, marks, data, methodname, value,
                   callback, error>>

\* onError(msg): msg is a string, an Error or anything else.
ErrorOf(msg) ==
    CASE msg[1] = "string" -> MkError(msg[2], <<>>)
      [] msg[1] = "Error" -> msg
      [] OTHER -> MkError("Unknown error", <<>>)

OnError(msg) ==
    /\ IF error = Null
       THEN /\ error' = ErrorOf(msg)
            /\ Invoke(ErrorOf(msg), <<>>)
       ELSE UNCHANGED <<error, delivered>>
    /\ UNCHANGED <<type, responseType, stack, marks, data, methodname, value, callback>>

\* onOpentag recording the mark one past the stack's length.
OnOpentag_OneBased(name) ==
    /\ marks' = IF name \in {"ARRAY", "STRUCT"} THEN Append(marks, Len(stack) + 1) ELSE marks
    /\ data' = <<>>
    /\ value' = (name = "VALUE")
    /\ UNCHANGED <<type, responseType, stack, methodname, callback, error, delivered>>

\* onOpentag(node)
OnOpentag(name) ==
    /\ marks' = IF name \in {"ARRAY", "STRUCT"} THEN Append(marks, Len(stack)) ELSE marks
    /\ data' = <<>>
    /\ value' = (name = "VALUE")
    /\ UNCHANGED <<type, responseType, stack, methodname, callback, error, delivered>>

\* onText(text) and onCDATA(cdata)
OnText(text) ==
    /\ data' = Append(data, text)
    /\ UNCHANGED <<type, responseType, stack, marks, methodname, value, callback,
                   error, delivered>>

\* onCDATA starting the buffer afresh.
OnCDATA_Replaces(cdata) ==
    /\ data' = <<cdata>>
    /\ UNCHANGED <<type, responseType, stack, marks, methodname, value, callback,
                   error, delivered>>

OnCDATA(cdata) ==
    /\ data' = Append(data, cdata)
    /\ UNCHANGED <<type, responseType, stack, marks, methodname, value, callback,
                   error, delivered>>

\* What an end* helper leaves behind: the fields it may write, and the Error it
\* threw (Null when it returned normally).
Returned == [thrown |-> Null, stack |-> stack, marks |-> marks, value |-> value,
             type |-> type, responseType |-> responseType, methodname |-> methodname]
Throw(msg, detail) == [Returned EXCEPT !.thrown = MkError(msg, detail)]

\* push(value) followed by this.value = false
PushValue(v) == [Returned EXCEPT !.stack = Append(stack, v), !.value = FALSE]

endNil == PushValue(Null)

\* endBoolean reading the text as a number (parseInt) before comparing.
endBoolean_Lenient(d) ==
    IF ParseInt(d) = MkInt(1) THEN PushValue(MkBool(TRUE))
    ELSE IF ParseInt(d) = MkInt(0) THEN PushValue(MkBool(FALSE))
    ELSE Throw("Illegal boolean value", d)

endBoolean(d) ==
    IF d = <<"1">> THEN PushValue(MkBool(TRUE))
    ELSE IF d = <<"0">> THEN PushValue(MkBool(FALSE))
    ELSE Throw("Illegal boolean value", d)

endInt(d) ==
    IF IsNaN(ParseInt(d)) THEN Throw("Expected an integer but got", d)
    ELSE PushValue(ParseInt(d))

endDouble(d) ==
    IF IsNaN(ParseFloat(d)) THEN Throw("Expected a double but got", d)
    ELSE PushValue(ParseFloat(d))

endString(d) == PushValue(MkStr(d))

\* stack.slice(mark) and the part stack.splice(mark, length - mark) leaves.
SliceFrom(mark) == SubSeq(stack, mark + 1, Len(stack))
SpliceTo(mark) == IF mark < Len(stack) THEN SubSeq(stack, 1, mark) ELSE stack

\* endArray without the underflow check: slice(undefined) is the whole stack.
endArray_NoUnderflowCheck ==
    LET mark == IF marks = <<>> THEN 0 ELSE marks[Len(marks)]
    IN  [Returned EXCEPT !.marks = SubSeq(marks, 1, Len(marks) - 1),
                         !.stack = Append(SpliceTo(mark), MkArr(SliceFrom(mark))),
                         !.value = FALSE]

\* endArray taking the bottom mark (marks.shift()) instead of the top one.
endArray_FirstMark ==
    IF marks = <<>> THEN Throw("Array mark stack underflow", <<>>)
    ELSE [Returned EXCEPT !.marks = Tail(marks),
                          !.stack = Append(SpliceTo(marks[1]), MkArr(SliceFrom(marks[1]))),
                          !.value = FALSE]

endArray ==
    IF marks = <<>> THEN Throw("Array mark stack underflow", <<>>)
    ELSE LET mark == marks[Len(marks)]
         IN  [Returned EXCEPT !.marks = SubSeq(marks, 1, Len(marks) - 1),
                              !.stack = Append(SpliceTo(mark), MkArr(SliceFrom(mark))),
                              !.value = FALSE]

RECURSIVE StructOf(_, _)
\* The loop of endStruct: items read as key, value, key, value, ...
StructOf(items, struct) ==
    IF items = <<>> THEN struct
    ELSE StructOf(IF Len(items) <= 2 THEN <<>> ELSE SubSeq(items, 3, Len(items)),
                  SetProp(struct, ToStr(items[1]),
                          IF Len(items) >= 2 THEN items[2] ELSE Undefined))

\* endStruct keeping the first value of a repeated key.
endStruct_FirstWins ==
    IF marks = <<>> THEN Throw("Struct mark stack underflow", <<>>)
    ELSE LET mark == marks[Len(marks)]
             RECURSIVE First(_, _)
             First(items, struct) ==
                IF items = <<>> THEN struct
                ELSE First(IF Len(items) <= 2 THEN <<>> ELSE SubSeq(items, 3, Len(items)),
                           IF \E i \in 1..Len(struct) : struct[i][1] = ToStr(items[1])
                           THEN struct
                           ELSE Append(struct, <<ToStr(items[1]),
                                        IF Len(items) >= 2 THEN items[2] ELSE Undefined>>))
         IN  [Returned EXCEPT !.marks = SubSeq(marks, 1, Len(marks) - 1),
                              !.stack = Append(SpliceTo(mark),
                                               MkObj(First(SliceFrom(mark), <<>>))),
                              !.value = FALSE]

endStruct ==
    IF marks = <<>> THEN Throw("Struct mark stack underflow", <<>>)
    ELSE LET mark == marks[Len(marks)]
         IN  [Returned EXCEPT !.marks = SubSeq(marks, 1, Len(marks) - 1),
                              !.stack = Append(SpliceTo(mark),
                                               MkObj(StructOf(SliceFrom(mark), <<>>))),
                              !.value = FALSE]

endBase64(d) == PushValue(MkBuf(B64Decode(d)))

endDateTime(d, offset) ==
    IF DecodeIso8601(d, offset)[1] = "throw"
    THEN Throw("Expected a ISO8601 datetime but got", d)
    ELSE PushValue(DecodeIso8601(d, offset))

\* Deserializer.isInteger = /^-?\d+$/
isInteger(d) ==
    LET u == IF d # <<>> /\ Head(d) = "-" THEN Tail(d) ELSE d
    IN  u # <<>> /\ \A i \in 1..Len(u) : IsDigit(u[i])

\* endI8 pushing the parsed number instead of the text (0 stands for the
\* rounded number of a text too long to be held exactly).
endI8_AsNumber(d) ==
    IF ~isInteger(d) THEN Throw("Expected integer (I8) value but got", d)
    ELSE PushValue(IF Len(d) > 9 THEN MkInt(0) ELSE ParseInt(d))

endI8(d) ==
    IF ~isInteger(d) THEN Throw("Expected integer (I8) value but got", d)
    ELSE endString(d)

endValue(d) == IF value THEN endString(d) ELSE Returned

endParams == [Returned EXCEPT !.responseType = "params"]
endFault == [Returned EXCEPT !.responseType = "fault"]
endMethodResponse == [Returned EXCEPT !.type = "methodresponse"]
endMethodName(d) == [Returned EXCEPT !.methodname = MkStr(d)]
endMethodCall == [Returned EXCEPT !.type = "methodcall"]

\* The switch of onClosetag.
EndOf(el, d, offset) ==
    CASE el = "BOOLEAN" -> endBoolean(d)
      [] el \in {"INT", "I4"} -> endInt(d)
      [] el = "I8" -> endI8(d)
      [] el = "DOUBLE" -> endDouble(d)
      [] el \in {"STRING", "NAME"} -> endString(d)
      [] el = "ARRAY" -> endArray
      [] el = "STRUCT" -> endStruct
      [] el = "BASE64" -> endBase64(d)
      [] el = "DATETIME.ISO8601" -> endDateTime(d, offset)
      [] el = "VALUE" -> endValue(d)
      [] el = "PARAMS" -> endParams
      [] el = "FAULT" -> endFault
      [] el = "METHODRESPONSE" -> endMethodResponse
      [] el = "METHODNAME" -> endMethodName(d)
      [] el = "METHODCALL" -> endMethodCall
      [] el = "NIL" -> endNil
      [] OTHER -> Returned

\* onClosetag(el): the switch, and onError(e) for what it throws.  offset is
\* the machine's time zone offset, which decodeIso8601 reads.
OnClosetag(el, offset) ==
    LET r == EndOf(el, Join(data), offset)
    IN  IF r.thrown = Null
        THEN /\ stack' = r.stack
             /\ marks' = r.marks
             /\ value' = r.value
             /\ type' = r.type
             /\ responseType' = r.responseType
             /\ methodname' = r.methodname
             /\ UNCHANGED <<data, callback, error, delivered>>
        ELSE OnError(r.thrown)

-----------------------------------------------------------------------------
(* DateFormatter.encodeIso8601 (date_formatter.mts).                       *)

DEFAULT_OPTIONS ==
    [colons |-> TRUE, hyphens |-> FALSE, local |-> TRUE, ms |-> FALSE, offset |-> FALSE]

RECURSIVE JoinWith(_, _)
\* Array.prototype.join(sep)
JoinWith(parts, sep) ==
    IF parts = <<>> THEN <<>>
    ELSE IF Len(parts) = 1 THEN parts[1]
    ELSE parts[1] \o sep \o JoinWith(Tail(parts), sep)

\* getUTCDateParts / getLocalDateParts on the getters' values
\* <<year, month, day, hours, minutes, seconds, milliseconds>>.
DateParts(g) ==
    <<IntToStr(g[1]), ZeroPad(g[2], 2), ZeroPad(g[3], 2), ZeroPad(g[4], 2),
      ZeroPad(g[5], 2), ZeroPad(g[6], 2), ZeroPad(g[7], 3)>>

EncodeIso8601(date, o) ==
    LET parts == IF o.local THEN DateParts(date[3]) ELSE DateParts(date[2])
    IN  JoinWith(<<parts[1], parts[2], parts[3]>>, IF o.hyphens THEN <<"-">> ELSE <<>>)
        \o <<"T">>
        \o JoinWith(<<parts[4], parts[5], parts[6]>>, IF o.colons THEN <<":">> ELSE <<>>)
        \o (IF o.ms THEN <<".">> \o parts[7] ELSE <<>>)
        \o (IF o.local
            THEN (IF o.offset THEN FormatCurrentOffset(date[4]) ELSE <<>>)
            ELSE <<"Z">>)

-----------------------------------------------------------------------------
(* The XML builder (xmlbuilder, declared in types/xmlbuilder.d.ts).  The   *)
(* document is an arena of element nodes; node 1 is the root.  A node's    *)
(* children are <<"ele", id>>, <<"text", s>> and <<"cdata", s>> items.     *)

\* create(name, options): a document whose root element is name
Create(name) == <<[name |-> name, parent |-> 0, kids |-> <<>>]>>

\* node.ele(name): appends a child element; EleId is the node returned
EleId(x) == Len(x) + 1
Ele(x, n, name) ==
    Append([x EXCEPT ![n].kids = Append(@, <<"ele", Len(x) + 1>>)],
           [name |-> name, parent |-> n, kids |-> <<>>])

\* node.txt(value) / node.text(value): appends a text child, returns node
Txt(x, n, s) == [x EXCEPT ![n].kids = Append(@, <<"text", s>>)]

\* node.d(value) / node.cdata(value): appends a CDATA section, returns node
CData_(x, n, s) == [x EXCEPT ![n].kids = Append(@, <<"cdata", s>>)]

\* node.up(): the parent
Up(x, n) == x[n].parent

-----------------------------------------------------------------------------
(* Serializer (serializer.mts).                                            *)

\* typeof value
TypeOf(v) ==
    CASE Kind(v) \in {"boolean", "string", "number", "undefined", "function", "symbol"}
            -> Kind(v)
      [] Kind(v) = "NaN" -> "number"
      [] OTHER -> "object"

appendBoolean(x, n, v) ==
    Txt(Ele(x, n, "boolean"), EleId(x), IntToStr(IF Val(v) THEN 1 ELSE 0))

NoLtAmp(s) == \A i \in 1..Len(s) : s[i] \notin {"<", "&"}

\* The lookahead of illegalChars, [^<&]*]]>[^<&]* at the start of the string:
\* a "]]>" with neither "<" nor "&" before it.
LooksAtTerminator(s) ==
    \E i \in 1..(Len(s) - 2) :
        /\ s[i] = "]" /\ s[i + 1] = "]" /\ s[i + 2] = ">"
        /\ NoLtAmp(SubSeq(s, 1, i - 1))

\* illegalChars without its lookahead: /^[^<&]*$/
illegalChars_NoLookahead(s) == NoLtAmp(s)

\* illegalChars.test(value), illegalChars = /^(?![^<&]*]]>[^<&]*)[^<&]*$/
illegalChars(s) == ~LooksAtTerminator(s) /\ NoLtAmp(s)

appendString(x, n, v) ==
    IF Len(Val(v)) = 0 THEN Ele(x, n, "string")
    ELSE IF ~illegalChars(Val(v)) THEN CData_(Ele(x, n, "string"), EleId(x), Val(v))
    ELSE Txt(Ele(x, n, "string"), EleId(x), Val(v))

appendNumber(x, n, v) ==
    IF Kind(v) = "NaN" THEN Txt(Ele(x, n, "double"), EleId(x), <<"N", "a", "N">>)
    ELSE IF Val(v)[2] = 0 THEN Txt(Ele(x, n, "int"), EleId(x), NumToStr(Val(v)))
    ELSE Txt(Ele(x, n, "double"), EleId(x), NumToStr(Val(v)))

appendDatetime(x, n, v, o) ==
    Txt(Ele(x, n, "dateTime.iso8601"), EleId(x), EncodeIso8601(Val(v), o))

appendBuffer(x, n, v) == Txt(Ele(x, n, "base64"), EleId(x), B64Encode(Val(v)))

\* CustomType.serialize(xml): xml.ele(this.tagName).txt(this.raw)
CustomSerialize(x, n, v) ==
    Txt(Ele(x, n, "customType"), EleId(x), Val(v))

\* A frame of serializeValue; index -1 and keys Undefined stand for absent.
Frame(v, n) == [value |-> v, xml |-> n, index |-> -1, keys |-> Undefined]

\* getNextItemsFrame walking an array from its last element to its first.
getNextItemsFrame_Backwards(x, frame) ==
    IF frame.keys # Undefined
    THEN IF frame.index < Len(frame.keys[2])
         THEN LET key == frame.keys[2][frame.index + 1]
                  xm == Ele(x, frame.xml, "member")
                  member == EleId(xm)
                  xn == Txt(Ele(xm, EleId(x), "name"), member, key)
              IN  [has |-> TRUE, next |-> Frame(GetProp(frame.value, key), member),
                   frame |-> [frame EXCEPT !.index = @ + 1],
                   xml |-> xn]
         ELSE [has |-> FALSE, next |-> Null, frame |-> frame, xml |-> x]
    ELSE IF frame.index < Len(Val(frame.value))
         THEN [has |-> TRUE,
               next |-> Frame(Val(frame.value)[Len(Val(frame.value)) - frame.index],
                              frame.xml),
               frame |-> [frame EXCEPT !.index = @ + 1],
               xml |-> x]
         ELSE [has |-> FALSE, next |-> Null, frame |-> frame, xml |-> x]

\* getNextItemsFrame(frame): the next frame (has: it is not null), the frame
\* as it leaves it, and the document as it leaves it.
getNextItemsFrame(x, frame) ==
    IF frame.keys # Undefined
    THEN IF frame.index < Len(frame.keys[2])
         THEN LET key == frame.keys[2][frame.index + 1]
                  xm == Ele(x, frame.xml, "member")
                  member == EleId(xm)          \* ...ele("member").ele("name")
                  xn == Txt(Ele(xm, EleId(x), "name"), member, key)
              IN  [has |-> TRUE, next |-> Frame(GetProp(frame.value, key), member),
                   frame |-> [frame EXCEPT !.index = @ + 1],
                   xml |-> xn]
         ELSE [has |-> FALSE, next |-> Null, frame |-> frame, xml |-> x]
    ELSE IF frame.index < Len(Val(frame.value))
         THEN [has |-> TRUE,
               next |-> Frame(Val(frame.value)[frame.index + 1], frame.xml),
               frame |-> [frame EXCEPT !.index = @ + 1],
               xml |-> x]
         ELSE [has |-> FALSE, next |-> Null, frame |-> frame, xml |-> x]

\* Object.keys(value)
ObjectKeys(v) == [i \in 1..Len(Val(v)) |-> Val(v)[i][1]]

\* The frame stack after getNextItemsFrame answered r for the top frame.
PushOrPop(below, r) ==
    IF r.has THEN below \o <<r.frame, r.next>> ELSE below

\* One iteration of the while loop of serializeValue: the frame stack and the
\* document it leaves.  o is dateFormatter.opts.
serializeValueStep(x, fs, o) ==
    LET current == fs[Len(fs)]
        below == SubSeq(fs, 1, Len(fs) - 1)
        v == current.value
        vn == EleId(x)                        \* valueNode
        xv == Ele(x, current.xml, "value")
    IN  IF current.index # -1
        THEN LET r == getNextItemsFrame(x, current)
             IN  [frames |-> PushOrPop(below, r), xml |-> r.xml]
        ELSE CASE TypeOf(v) = "boolean" ->
                    [frames |-> below, xml |-> appendBoolean(xv, vn, v)]
               [] TypeOf(v) = "string" ->
                    [frames |-> below, xml |-> appendString(xv, vn, v)]
               [] TypeOf(v) = "number" ->
                    [frames |-> below, xml |-> appendNumber(xv, vn, v)]
               [] TypeOf(v) = "object" /\ Kind(v) = "null" ->
                    [frames |-> below, xml |-> Ele(xv, vn, "nil")]
               [] TypeOf(v) = "object" /\ Kind(v) = "date" ->
                    [frames |-> below, xml |-> appendDatetime(xv, vn, v, o)]
               [] TypeOf(v) = "object" /\ Kind(v) = "buffer" ->
                    [frames |-> below, xml |-> appendBuffer(xv, vn, v)]
               [] TypeOf(v) = "object" /\ Kind(v) = "custom" ->
                    [frames |-> below, xml |-> CustomSerialize(xv, vn, v)]
               [] TypeOf(v) = "object" /\ Kind(v) = "array" ->
                    LET xa == Ele(Ele(xv, vn, "array"), EleId(xv), "data")
                        r == getNextItemsFrame(xa,
                                [current EXCEPT !.xml = EleId(xv) + 1, !.index = 0])
                    IN  [frames |-> PushOrPop(below, r), xml |-> r.xml]
               [] TypeOf(v) = "object" /\ Kind(v) = "object" ->
                    LET xs == Ele(xv, vn, "struct")
                        r == getNextItemsFrame(xs,
                                [current EXCEPT !.xml = EleId(xv),
                                                !.keys = <<"keys", ObjectKeys(v)>>,
                                                !.index = 0])
                    IN  [frames |-> PushOrPop(below, r), xml |-> r.xml]
               [] OTHER -> [frames |-> below, xml |-> xv]

-----------------------------------------------------------------------------
(* The wire: the builder writes the document, the tokenizer (sax, loose    *)
(* mode) reads it back as events with upper-cased tag names.               *)

\* Character data as the builder writes it.
EscapeChar(c) ==
    CASE c = "&" -> <<"&", "a", "m", "p", ";">>
      [] c = "<" -> <<"&", "l", "t", ";">>
      [] c = ">" -> <<"&", "g", "t", ";">>
      [] OTHER -> <<c>>

RECURSIVE EscapeText(_)
EscapeText(s) == IF s = <<>> THEN <<>> ELSE EscapeChar(Head(s)) \o EscapeText(Tail(s))

\* The entity that starts at the head of s ("&...;"), as <<length, character>>,
\* or <<0, "">> when s does not start with a known entity.
EntityAt(s) ==
    CASE Len(s) >= 5 /\ SubSeq(s, 1, 5) = <<"&", "a", "m", "p", ";">> -> <<5, "&">>
      [] Len(s) >= 4 /\ SubSeq(s, 1, 4) = <<"&", "l", "t", ";">> -> <<4, "<">>
      [] Len(s) >= 4 /\ SubSeq(s, 1, 4) = <<"&", "g", "t", ";">> -> <<4, ">">>
      [] OTHER -> <<0, "">>

RECURSIVE UnescapeText(_)
\* Character data as the tokenizer reports it.
UnescapeText(s) ==
    IF s = <<>> THEN <<>>
    ELSE IF EntityAt(s)[1] > 0
    THEN <<EntityAt(s)[2]>> \o UnescapeText(SubSeq(s, EntityAt(s)[1] + 1, Len(s)))
    ELSE <<Head(s)>> \o UnescapeText(Tail(s))

\* The tokenizer's upper-casing of the tag names the Serializer writes.
UpperName(name) ==
    CASE name = "methodCall" -> "METHODCALL"
      [] name = "methodName" -> "METHODNAME"
      [] name = "methodResponse" -> "METHODRESPONSE"
      [] name = "params" -> "PARAMS"
      [] name = "param" -> "PARAM"
      [] name = "fault" -> "FAULT"
      [] name = "value" -> "VALUE"
      [] name = "boolean" -> "BOOLEAN"
      [] name = "string" -> "STRING"
      [] name = "int" -> "INT"
      [] name = "double" -> "DOUBLE"
      [] name = "nil" -> "NIL"
      [] name = "dateTime.iso8601" -> "DATETIME.ISO8601"
      [] name = "base64" -> "BASE64"
      [] name = "array" -> "ARRAY"
      [] name = "data" -> "DATA"
      [] name = "struct" -> "STRUCT"
      [] name = "member" -> "MEMBER"
      [] name = "name" -> "NAME"
      [] name = "customType" -> "CUSTOMTYPE"

RECURSIVE Events(_, _)
RECURSIVE KidsEvents(_, _)
\* The events of a node's children, in document order.  Empty character data
\* raises no event.
KidsEvents(x, kids) ==
    IF kids = <<>> THEN <<>>
    ELSE LET k == Head(kids)
             ev == CASE k[1] = "ele" -> Events(x, k[2])
                     [] k[1] = "text" ->
                          IF k[2] = <<>> THEN <<>>
                          ELSE <<<<"text", UnescapeText(EscapeText(k[2]))>>>>
                     [] k[1] = "cdata" -> <<<<"cdata", k[2]>>>>
         IN  ev \o KidsEvents(x, Tail(kids))

\* The events of element n: opentag, its children, closetag.
Events(x, n) ==
    <<<<"open", UpperName(x[n].name)>>>> \o KidsEvents(x, x[n].kids)
        \o <<<<"close", UpperName(x[n].name)>>>>

\* xml.doc().toString(), read by the tokenizer
Tokenize(x) == Events(x, 1)

-----------------------------------------------------------------------------
(* Spec: one Deserializer under every sequence of tokenizer and stream     *)
(* events.                                                                 *)

\* The tag vocabulary of the switch, and one tag outside it.
Tags == {"BOOLEAN", "INT", "I4", "I8", "DOUBLE", "STRING", "NAME", "ARRAY", "STRUCT",
         "BASE64", "DATETIME.ISO8601", "VALUE", "PARAMS", "FAULT", "METHODRESPONSE",
         "METHODNAME", "METHODCALL", "NIL", "DATA", "PARAM", "MEMBER", "FOO"}

\* The text and cdata chunks the tokenizer delivers.
Chunks == {<<"1">>, <<"x">>}

\* What the parser and the stream emit as "error".
ErrorEvents == {<<"string", "Unexpected end">>, <<"Error", "ECONNRESET", <<>>>>,
                <<"other", 0>>}

\* No Client and no Server: no cookie jar, no request, no listener.
NoClient ==
    /\ jar = <<>>
    /\ now = 0
    /\ headers = Undefined
    /\ reported = <<>>
    /\ listeners = {}

InitDeserializer ==
    /\ type = "null"
    /\ responseType = "null"
    /\ stack = <<>>
    /\ marks = <<>>
    /\ data = <<>>
    /\ methodname = Null
    /\ value = FALSE
    /\ callback = "null"
    /\ error = Null
    /\ delivered = <<>>
    /\ nev = 0

Init ==
    /\ NoClient
    /\ others = <<>>
    /\ calls = <<>>
    /\ InitDeserializer
    /\ input = Null
    /\ frames = <<>>
    /\ xml = <<>>
    /\ pending = <<>>
    /\ pc = "events"
    /\ queue = <<>>
    /\ opts = DEFAULT_OPTIONS

\* deserializeMethodResponse(stream, callback)
DeserializeMethodResponse ==
    /\ UNCHANGED <<others, calls>>
    /\ UNCHANGED cliVars
    /\ callback = "null"
    /\ callback' = "response"
    /\ UNCHANGED <<type, responseType, stack, marks, data, methodname, value, error,
                   delivered, nev>>
    /\ UNCHANGED serVars

\* deserializeMethodCall(stream, callback)
DeserializeMethodCall ==
    /\ UNCHANGED <<others, calls>>
    /\ UNCHANGED cliVars
    /\ callback = "null"
    /\ callback' = "call"
    /\ UNCHANGED <<type, responseType, stack, marks, data, methodname, value, error,
                   delivered, nev>>
    /\ UNCHANGED serVars

\* Only decodeIso8601 reads the machine's time zone offset.
OffsetsRead(el) == IF el = "DATETIME.ISO8601" THEN TimezoneOffsets ELSE {0}

\* An event reaches the handlers only once the stream is piped to the parser.
Listening == callback # "null" /\ pc = "events" /\ nev < MaxEvents

Opentag ==
    /\ UNCHANGED <<others, calls>>
    /\ UNCHANGED cliVars
    /\ Listening
    /\ \E name \in Tags : OnOpentag(name)
    /\ nev' = nev + 1
    /\ UNCHANGED serVars

Closetag ==
    /\ UNCHANGED <<others, calls>>
    /\ UNCHANGED cliVars
    /\ Listening
    /\ \E el \in Tags : \E offset \in OffsetsRead(el) : OnClosetag(el, offset)
    /\ nev' = nev + 1
    /\ UNCHANGED serVars

Text ==
    /\ UNCHANGED <<others, calls>>
    /\ UNCHANGED cliVars
    /\ Listening
    /\ \E text \in Chunks : OnText(text)
    /\ nev' = nev + 1
    /\ UNCHANGED serVars

CData ==
    /\ UNCHANGED <<others, calls>>
    /\ UNCHANGED cliVars
    /\ Listening
    /\ \E cdata \in Chunks : OnCDATA(cdata)
    /\ nev' = nev + 1
    /\ UNCHANGED serVars

\* parser.on("end", onDone)
ParserEnd ==
    /\ UNCHANGED <<others, calls>>
    /\ UNCHANGED cliVars
    /\ Listening
    /\ OnDone
    /\ nev' = nev + 1
    /\ UNCHANGED serVars

\* parser.on("error", onError)
ParserError ==
    /\ UNCHANGED <<others, calls>>
    /\ UNCHANGED cliVars
    /\ Listening
    /\ \E msg \in ErrorEvents : OnError(msg)
    /\ nev' = nev + 1
    /\ UNCHANGED serVars

\* stream.on("error", onError)
StreamError ==
    /\ UNCHANGED <<others, calls>>
    /\ UNCHANGED cliVars
    /\ Listening
    /\ \E msg \in ErrorEvents : OnError(msg)
    /\ nev' = nev + 1
    /\ UNCHANGED serVars

Next ==
    \/ DeserializeMethodResponse
    \/ DeserializeMethodCall
    \/ Opentag
    \/ Closetag
    \/ Text
    \/ CData
    \/ ParserEnd
    \/ ParserError
    \/ StreamError

Spec == Init /\ [][Next]_vars

-----------------------------------------------------------------------------
(* SpecCodec: an envelope is encoded by the Serializer (or a document      *)
(* written by a peer arrives), is read by the tokenizer and decoded by a   *)
(* fresh Deserializer.                                                     *)

MaxStrLen == 3      \* length of the strings encoded at top level
MaxArrayLen == 2    \* length of the arrays and parameter lists encoded

StrChars == {"a", "<", "&", "]", ">"}
Strings == UNION {[1..k -> StrChars] : k \in 0..MaxStrLen}

Leaves == {Null, MkBool(TRUE), MkBool(FALSE), MkInt(-7), MkInt(12), MkStr(<<>>),
           MkStr(<<"a", "&">>), MkBuf(<<77>>), MkBuf(<<0, 255, 16, 3>>)}
Keys == {<<"a">>, <<"b">>}
KeyLists == {<<>>, <<<<"a">>>>, <<<<"b">>>>, <<<<"a">>, <<"b">>>>, <<<<"b">>, <<"a">>>>}

ArraysOver(S) == {MkArr(vs) : vs \in UNION {[1..k -> S] : k \in 0..MaxArrayLen}}
StructsOver(S) ==
    UNION {{MkObj([i \in 1..Len(ks) |-> <<ks[i], f[i]>>]) : f \in [1..Len(ks) -> S]}
           : ks \in KeyLists}

Inner == {MkInt(12), MkStr(<<"<">>), MkArr(<<>>), MkArr(<<Null, MkBool(TRUE)>>),
          MkObj(<<>>), MkObj(<<<<<<"a">>, MkInt(-7)>>>>)}

\* The values encoded: every string, and arrays and structs nested twice.
Values ==
    {MkStr(str) : str \in Strings} \cup Leaves
        \cup ArraysOver(Leaves) \cup StructsOver(Leaves)
        \cup ArraysOver(Inner) \cup StructsOver(Inner)

\* Values of kinds the switch of serializeValue has no case for, alone, as an
\* array element and as a struct member.
Unsupported == {Undefined, <<"function", 0>>, <<"symbol", 0>>}
UnsupportedValues ==
    Unsupported
        \cup {MkArr(<<u, MkInt(12)>>) : u \in Unsupported}
        \cup {MkArr(<<MkStr(<<"a">>), u>>) : u \in Unsupported}
        \cup {MkObj(<<<<<<"a">>, u>>, <<<<"b">>, MkBool(TRUE)>>>>) : u \in Unsupported}

MethodNames == {<<"m">>, <<"a", "<">>}
ParamLists == UNION {[1..k -> Inner] : k \in 0..MaxArrayLen}

\* Documents written by a peer, as the events the tokenizer reads from them.
Open(name) == <<"open", name>>
Close(name) == <<"close", name>>
Chars(str) == <<"text", str>>
PeerMember(key, typeTag, text) ==
    <<Open("MEMBER"), Open("NAME"), Chars(key), Close("NAME"), Open("VALUE"),
      Open(typeTag), Chars(text), Close(typeTag), Close("VALUE"), Close("MEMBER")>>
PeerStruct(members) ==
    <<Open("VALUE"), Open("STRUCT")>> \o members \o <<Close("STRUCT"), Close("VALUE")>>
PeerFault(val) ==
    <<Open("METHODRESPONSE"), Open("FAULT")>> \o val
        \o <<Close("FAULT"), Close("METHODRESPONSE")>>
PeerResponse(val) ==
    <<Open("METHODRESPONSE"), Open("PARAMS"), Open("PARAM")>> \o val
        \o <<Close("PARAM"), Close("PARAMS"), Close("METHODRESPONSE")>>
PeerInt(text) == <<Open("VALUE"), Open("INT"), Chars(text), Close("INT"), Close("VALUE")>>

\* <value><T>text</T></value>; the tokenizer emits no text event for no text.
PeerScalar(typeTag, text) ==
    <<Open("VALUE"), Open(typeTag)>> \o (IF text = <<>> THEN <<>> ELSE <<Chars(text)>>)
        \o <<Close(typeTag), Close("VALUE")>>

\* The texts a peer puts into BOOLEAN, INT, I4 and I8 elements.
ScalarTexts ==
    { <<"1">>, <<"0">>, <<>>, <<"t", "r", "u", "e">>,
      <<" ", "1">>, <<"0", "1">>, <<"-", "1", "2">>, <<"1", "2", "a", "b", "c">>,
      <<"1", ".", "5">>, <<"a", "b", "c">>, <<"-">> }
\* An integer outside the range a native number holds exactly.
BigIntegerText ==
    <<"9", "0", "0", "7", "1", "9", "9", "2", "5", "4", "7", "4", "0", "9", "9", "3">>
ScalarDocs ==
    {PeerResponse(PeerScalar(t, text)) : t \in {"BOOLEAN", "INT", "I4", "I8"},
                                         text \in ScalarTexts}
        \cup {PeerResponse(PeerScalar("I8", BigIntegerText))}

\* Values without a type tag, and elements outside the vocabulary.
ExtensionDocs ==
    { PeerResponse(<<Open("VALUE"), Chars(<<"a", "b">>), Close("VALUE")>>),
      PeerResponse(<<Open("VALUE"), Close("VALUE")>>),
      PeerResponse(<<Open("VALUE"), Open("FOO"), Close("FOO"), Close("VALUE")>>),
      PeerResponse(<<Open("VALUE"), Open("FOO"), Close("FOO"), Chars(<<"a", "b">>),
                     Close("VALUE")>>),
      PeerResponse(<<Open("FOO"), Close("FOO")>> \o PeerInt(<<"4", "2">>)) }

\* Character data as the tokenizer may deliver it: whole or cut in two at
\* position p, each piece as a text or as a cdata event.
Pieces(text, p) ==
    LET pre == SubSeq(text, 1, p)
        suf == SubSeq(text, p + 1, Len(text))
    IN  { <<<<"cdata", text>>>> }
            \cup { <<<<k1, pre>>, <<k2, suf>>>> : k1 \in {"text", "cdata"}, k2 \in {"text", "cdata"} }

\* A scalar tag, a text for it, and where the text is cut.
ScalarSamples ==
    { <<"BOOLEAN", <<"1", "0">>, 1>>, <<"INT", <<"1", "2">>, 1>>, <<"I4", <<"1", "2">>, 1>>,
      <<"I8", <<"-", "1", "2">>, 1>>, <<"DOUBLE", <<"1", ".", "5">>, 2>>,
      <<"STRING", <<"a", "b">>, 1>>, <<"BASE64", <<"Y", "W", "I", "=">>, 2>>,
      <<"DATETIME.ISO8601",
        <<"2", "0", "2", "6", "1", "1", "0", "4", "T", "0", "9", ":", "3", "5", ":", "0", "6", "Z">>,
        8>> }

\* Documents whose character data arrives in pieces: in a scalar, in a member
\* name and in a method name.
ChunkDocs ==
    { PeerResponse(<<Open("VALUE"), Open(sc[1])>> \o pieces \o <<Close(sc[1]), Close("VALUE")>>) :
        sc \in ScalarSamples, pieces \in UNION {Pieces(t[2], t[3]) : t \in ScalarSamples} }
    \cup
    { PeerResponse(PeerStruct(<<Open("MEMBER"), Open("NAME")>> \o pieces
                              \o <<Close("NAME")>> \o PeerInt(<<"1">>) \o <<Close("MEMBER")>>)) :
        pieces \in Pieces(<<"a", "b">>, 1) }
    \cup
    { <<Open("METHODCALL"), Open("METHODNAME")>> \o pieces
        \o <<Close("METHODNAME"), Open("PARAMS"), Close("PARAMS"), Close("METHODCALL")>> :
        pieces \in Pieces(<<"a", "b">>, 1) }

PeerDocs ==
    ScalarDocs \cup ExtensionDocs \cup ChunkDocs \cup
    { PeerFault(PeerStruct(PeerMember(FaultCodeKey, "INT", <<"4">>)
                           \o PeerMember(FaultStringKey, "STRING", <<"n", "o">>))),
      PeerFault(PeerStruct(PeerMember(FaultStringKey, "STRING", <<"n", "o">>))),
      PeerFault(PeerStruct(<<>>)),
      PeerFault(PeerInt(<<"4">>)),
      PeerFault(<<>>),
      PeerResponse(PeerStruct(PeerMember(<<"a">>, "INT", <<"1">>)
                              \o PeerMember(<<"a">>, "INT", <<"2">>))),
      PeerResponse(PeerInt(<<"4", "2">>)),
      <<Open("METHODCALL"), Open("METHODNAME"), Chars(<<"s", "u", "m">>),
        Close("METHODNAME"), Open("PARAMS"), Open("PARAM")>> \o PeerInt(<<"2">>)
        \o <<Close("PARAM"), Open("PARAM")>> \o PeerInt(<<"3">>)
        \o <<Close("PARAM"), Close("PARAMS"), Close("METHODCALL")>> }

InitCodec ==
    /\ NoClient
    /\ others = <<>>
    /\ calls = <<>>
    /\ InitDeserializer
    /\ input = Null
    /\ frames = <<>>
    /\ xml = <<>>
    /\ pending = <<>>
    /\ pc = "encode"
    /\ queue = <<>>
    /\ opts = DEFAULT_OPTIONS

\* serializeMethodResponse(result), up to the call of serializeValue
SerializeMethodResponse ==
    /\ UNCHANGED <<others, calls>>
    /\ UNCHANGED cliVars
    /\ pc = "encode"
    /\ \E result \in Values \cup UnsupportedValues :
          /\ input' = <<"response", result>>
          /\ xml' = Ele(Ele(Create("methodResponse"), 1, "params"), 2, "param")
          /\ frames' = <<Frame(result, 3)>>
    /\ pending' = <<>>
    /\ pc' = "walk"
    /\ UNCHANGED <<queue, opts>>
    /\ UNCHANGED desVars

\* serializeFault(fault), up to the call of serializeValue
SerializeFault ==
    /\ UNCHANGED <<others, calls>>
    /\ UNCHANGED cliVars
    /\ pc = "encode"
    /\ \E fault \in StructsOver(Inner) :
          /\ input' = <<"fault", fault>>
          /\ xml' = Ele(Create("methodResponse"), 1, "fault")
          /\ frames' = <<Frame(fault, 2)>>
    /\ pending' = <<>>
    /\ pc' = "walk"
    /\ UNCHANGED <<queue, opts>>
    /\ UNCHANGED desVars

\* serializeMethodCall(method, params), up to params.forEach
SerializeMethodCall ==
    /\ UNCHANGED <<others, calls>>
    /\ UNCHANGED cliVars
    /\ pc = "encode"
    /\ \E method \in MethodNames, params \in ParamLists :
          /\ input' = <<"call", method, params>>
          /\ xml' = Ele(Txt(Ele(Create("methodCall"), 1, "methodName"), 2, method),
                        1, "params")
          /\ pending' = params
    /\ frames' = <<>>
    /\ pc' = "walk"
    /\ UNCHANGED <<queue, opts>>
    /\ UNCHANGED desVars

\* params.forEach: serializeValue(param, xml.ele("param")) is entered
SerializeParam ==
    /\ UNCHANGED <<others, calls>>
    /\ UNCHANGED cliVars
    /\ pc = "walk"
    /\ frames = <<>>
    /\ pending # <<>>
    /\ xml' = Ele(xml, 3, "param")
    /\ frames' = <<Frame(Head(pending), EleId(xml))>>
    /\ pending' = Tail(pending)
    /\ UNCHANGED <<input, pc, queue, opts>>
    /\ UNCHANGED desVars

\* one iteration of the while loop of serializeValue
SerializeValue ==
    /\ UNCHANGED <<others, calls>>
    /\ UNCHANGED cliVars
    /\ pc = "walk"
    /\ frames # <<>>
    /\ frames' = serializeValueStep(xml, frames, opts).frames
    /\ xml' = serializeValueStep(xml, frames, opts).xml
    /\ UNCHANGED <<input, pending, pc, queue, opts>>
    /\ UNCHANGED desVars

\* return xml.doc().toString()
SerializeReturn ==
    /\ UNCHANGED <<others, calls>>
    /\ UNCHANGED cliVars
    /\ pc = "walk"
    /\ frames = <<>>
    /\ pending = <<>>
    /\ pc' = "document"
    /\ UNCHANGED <<input, frames, xml, pending, queue, opts>>
    /\ UNCHANGED desVars

\* a document written by a peer arrives instead
ReceiveDocument ==
    /\ UNCHANGED <<others, calls>>
    /\ UNCHANGED cliVars
    /\ pc = "encode"
    /\ \E doc \in PeerDocs : input' = <<"peer", doc>>
    /\ pc' = "document"
    /\ UNCHANGED <<frames, xml, pending, queue, opts>>
    /\ UNCHANGED desVars

\* the events the tokenizer will read from the document
DocumentEvents == IF input[1] = "peer" THEN input[2] ELSE Tokenize(xml)

\* deserializeMethodResponse(stream, callback) on the document's stream
PipeResponse ==
    /\ UNCHANGED <<others, calls>>
    /\ UNCHANGED cliVars
    /\ pc = "document"
    /\ callback = "null"
    /\ callback' = "response"
    /\ queue' = DocumentEvents
    /\ pc' = "feed"
    /\ UNCHANGED <<type, responseType, stack, marks, data, methodname, value, error,
                   delivered, nev>>
    /\ UNCHANGED <<input, frames, xml, pending, opts>>

\* deserializeMethodCall(stream, callback) on the document's stream
PipeCall ==
    /\ UNCHANGED <<others, calls>>
    /\ UNCHANGED cliVars
    /\ pc = "document"
    /\ callback = "null"
    /\ callback' = "call"
    /\ queue' = DocumentEvents
    /\ pc' = "feed"
    /\ UNCHANGED <<type, responseType, stack, marks, data, methodname, value, error,
                   delivered, nev>>
    /\ UNCHANGED <<input, frames, xml, pending, opts>>

Feeding(kind) == pc = "feed" /\ queue # <<>> /\ Head(queue)[1] = kind

FeedOpentag ==
    /\ UNCHANGED <<others, calls>>
    /\ UNCHANGED cliVars
    /\ Feeding("open")
    /\ OnOpentag(Head(queue)[2])
    /\ queue' = Tail(queue)
    /\ nev' = nev + 1
    /\ UNCHANGED <<input, frames, xml, pending, pc, opts>>

FeedClosetag ==
    /\ UNCHANGED <<others, calls>>
    /\ UNCHANGED cliVars
    /\ Feeding("close")
    /\ \E offset \in OffsetsRead(Head(queue)[2]) : OnClosetag(Head(queue)[2], offset)
    /\ queue' = Tail(queue)
    /\ nev' = nev + 1
    /\ UNCHANGED <<input, frames, xml, pending, pc, opts>>

FeedText ==
    /\ UNCHANGED <<others, calls>>
    /\ UNCHANGED cliVars
    /\ Feeding("text")
    /\ OnText(Head(queue)[2])
    /\ queue' = Tail(queue)
    /\ nev' = nev + 1
    /\ UNCHANGED <<input, frames, xml, pending, pc, opts>>

FeedCData ==
    /\ UNCHANGED <<others, calls>>
    /\ UNCHANGED cliVars
    /\ Feeding("cdata")
    /\ OnCDATA(Head(queue)[2])
    /\ queue' = Tail(queue)
    /\ nev' = nev + 1
    /\ UNCHANGED <<input, frames, xml, pending, pc, opts>>

\* the document is read to its end: the parser emits "end"
FeedEnd ==
    /\ UNCHANGED <<others, calls>>
    /\ UNCHANGED cliVars
    /\ pc = "feed"
    /\ queue = <<>>
    /\ OnDone
    /\ pc' = "ended"
    /\ nev' = nev + 1
    /\ UNCHANGED <<input, frames, xml, pending, queue, opts>>

NextCodec ==
    \/ SerializeMethodResponse
    \/ SerializeFault
    \/ SerializeMethodCall
    \/ SerializeParam
    \/ SerializeValue
    \/ SerializeReturn
    \/ ReceiveDocument
    \/ PipeResponse
    \/ PipeCall
    \/ FeedOpentag
    \/ FeedClosetag
    \/ FeedText
    \/ FeedCData
    \/ FeedEnd

SpecCodec == InitCodec /\ [][NextCodec]_vars

-----------------------------------------------------------------------------
(* The claims.                                                             *)

LastDelivered == delivered[Len(delivered)]
LastDelivered_ == delivered'[Len(delivered')]
DeliversOne == Len(delivered') = Len(delivered) + 1
EndEvent == ParserEnd \/ FeedEnd
InvalidMessage == <<"error", MkError("Invalid XML-RPC message", <<>>)>>
MoreThanOneParam == <<"error", MkError("Response has more than one param", <<>>)>>
NotAMethodCall == <<"error", MkError("Not a method call", <<>>)>>
NoMethodName == <<"error", MkError("Method call did not contain a method name", <<>>)>>

\* C1: under every sequence of events the caller's callback is invoked at most
\* once (never a success and an error, never two of either).
C1_AtMostOneOutcome == Len(delivered) <= 1

\* C2: once an error was delivered through onError, every later opentag,
\* closetag, text and cdata event leaves the value stack, the marks, the text
\* buffer, both flags, the method name and the bare-value flag unchanged and
\* delivers nothing.
C2_ErrorFreezesState ==
    [][(error # Null /\ (Opentag \/ Closetag \/ Text \/ CData))
        => UNCHANGED <<stack, marks, data, type, responseType, methodname, value,
                       delivered>>]_vars

\* C4: when end arrives and no error was delivered before, and the envelope
\* type is unset or an ARRAY/STRUCT is still open, exactly the error "Invalid
\* XML-RPC message" is delivered (no success, no fault).
C4_InvalidMessageAtEnd ==
    [][(EndEvent /\ error = Null /\ (type = "null" \/ marks # <<>>))
        => delivered' = Append(delivered, InvalidMessage)]_vars

\* C4 witness: end came while a compound was open although the envelope closed.
C4_Witness ==
    /\ delivered # <<>>
    /\ LastDelivered = InvalidMessage
    /\ type # "null"
    /\ marks # <<>>
    /\ stack # <<>>

\* C5: deserializeMethodResponse, at an end that passes onDone's own checks
\* (envelope type methodcall or methodresponse, nothing left open, response kind
\* not fault, no error before) with more than one value on the stack, delivers
\* "Response has more than one param"; and with more than one value on the
\* stack it never delivers a success.
C5_MoreThanOneParam ==
    [][(EndEvent /\ callback = "response" /\ error = Null /\ Len(stack) > 1)
        => /\ DeliversOne
           /\ LastDelivered_[1] = "error"
           /\ (type # "null" /\ marks = <<>> /\ responseType # "fault")
                 => LastDelivered_ = MoreThanOneParam]_vars

\* C5 witness: two values under a METHODCALL envelope, no response kind.
C5_Witness ==
    /\ callback = "response"
    /\ delivered # <<>>
    /\ LastDelivered = MoreThanOneParam
    /\ Len(stack) = 2
    /\ type = "methodcall"
    /\ responseType = "null"

\* C6: deserializeMethodResponse delivers a success only if at end the envelope
\* type is methodresponse, the response kind is set and the stack holds exactly
\* one value, which is the value delivered.
C6_SuccessOnlyForOneValue ==
    [][(callback = "response" /\ Len(delivered') > Len(delivered)
            /\ LastDelivered_[1] = "success")
        => /\ type = "methodresponse"
           /\ responseType # "null"
           /\ Len(stack) = 1
           /\ LastDelivered_ = <<"success", stack[1]>>]_vars

\* C7 as claimed: deserializeMethodCall delivers success (methodName, params)
\* only if the envelope type is methodcall and the method name is non-empty,
\* params being the whole stack; in every other error-free end state it
\* delivers "Not a method call" or "Method call did not contain a method name".
C7_Original ==
    [][(EndEvent /\ callback = "call" /\ error = Null)
        => /\ DeliversOne
           /\ LastDelivered_[1] = "success"
                 => /\ type = "methodcall"
                    /\ Truthy(methodname)
                    /\ LastDelivered_ = <<"success", methodname, stack>>
           /\ ~(type = "methodcall" /\ Truthy(methodname))
                 => LastDelivered_ \in {NotAMethodCall, NoMethodName}]_vars

\* C7 amended: as C7, but in every other error-free end state the outcome is
\* an error: "Invalid XML-RPC message" when the envelope type is unset or a
\* compound is open, else the fault when the response kind is fault, else "Not
\* a method call" or "Method call did not contain a method name".
C7_CallOutcome ==
    [][(EndEvent /\ callback = "call" /\ error = Null)
        => /\ DeliversOne
           /\ LastDelivered_[1] = "success"
                 => /\ type = "methodcall"
                    /\ Truthy(methodname)
                    /\ LastDelivered_ = <<"success", methodname, stack>>
           /\ ~(type = "methodcall" /\ Truthy(methodname))
                 => /\ LastDelivered_[1] = "error"
                    /\ (type = "null" \/ marks # <<>>) => LastDelivered_ = InvalidMessage
                    /\ (type # "null" /\ marks = <<>> /\ responseType = "fault")
                          => IsFault(LastDelivered_[2])
                    /\ (type # "null" /\ marks = <<>> /\ responseType # "fault")
                          => LastDelivered_ \in {NotAMethodCall, NoMethodName}]_vars

\* C7 witness: a call was delivered with its name and a non-empty params list.
C7_Witness ==
    /\ callback = "call"
    /\ delivered # <<>>
    /\ LastDelivered[1] = "success"
    /\ LastDelivered = <<"success", methodname, stack>>
    /\ stack # <<>>

\* C3: the document of serializeMethodResponse(v) read by
\* deserializeMethodResponse delivers success with a value structurally equal
\* to v, and the document of serializeMethodCall(name, params) read by
\* deserializeMethodCall delivers the same name and the same params in order.
C3_RoundTrip ==
    pc = "ended" =>
        /\ (input[1] = "response" /\ input[2] \in Values /\ callback = "response")
              => /\ Len(delivered) = 1
                 /\ delivered[1][1] = "success"
                 /\ ValEq(delivered[1][2], input[2])
        /\ (input[1] = "call" /\ callback = "call")
              => /\ Len(delivered) = 1
                 /\ delivered[1][1] = "success"
                 /\ delivered[1][2] = MkStr(input[2])
                 /\ Len(delivered[1][3]) = Len(input[3])
                 /\ \A i \in 1..Len(input[3]) : ValEq(delivered[1][3][i], input[3][i])

\* The member of struct s named key as the document lists it (the last
\* occurrence wins), undefined when s has no such member.
MemberNamed(s, key) ==
    IF \E i \in 1..Len(Val(s)) : Val(s)[i][1] = key
    THEN LET last == CHOOSE i \in 1..Len(Val(s)) :
                         /\ Val(s)[i][1] = key
                         /\ \A j \in (i + 1)..Len(Val(s)) : Val(s)[j][1] # key
         IN  Val(s)[last][2]
    ELSE Undefined

\* C8: when end arrives with the response kind fault, the envelope type set,
\* nothing open, no earlier error and a struct as the sole stack entry, the
\* outcome is an error, never a success, whose faultCode and faultString are
\* the struct's faultCode and faultString members.
C8_FaultMirrorsStruct ==
    [][(EndEvent /\ error = Null /\ responseType = "fault" /\ type # "null"
            /\ marks = <<>> /\ Len(stack) = 1 /\ Kind(stack[1]) = "object")
        => /\ DeliversOne
           /\ LastDelivered_[1] = "error"
           /\ IsFault(LastDelivered_[2])
           /\ LastDelivered_[2][5] = MemberNamed(stack[1], FaultCodeKey)
           /\ LastDelivered_[2][6] = MemberNamed(stack[1], FaultStringKey)]_vars

\* C8 witness: the fault {faultCode: 4, faultString: "no"} was read to its end.
C8_Witness ==
    /\ pc = "ended"
    /\ responseType = "fault"
    /\ Len(stack) = 1
    /\ Kind(stack[1]) = "object"
    /\ Len(delivered) = 1
    /\ delivered[1][1] = "error"
    /\ delivered[1][2][5] = MkInt(4)
    /\ delivered[1][2][6] = MkStr(<<"n", "o">>)

\* The element children of node n, in document order.
ElementKids(n) == SelectSeq(xml[n].kids, LAMBDA k : k[1] = "ele")

\* C9: in a finished document every member element has exactly two children,
\* a name element holding only text and, after it, a sibling value element.
C9_MemberIsNameThenValue ==
    pc = "document" /\ input[1] # "peer" =>
        \A n \in 1..Len(xml) :
            xml[n].name = "member" =>
                /\ Len(xml[n].kids) = 2
                /\ xml[n].kids[1][1] = "ele"
                /\ xml[xml[n].kids[1][2]].name = "name"
                /\ ElementKids(xml[n].kids[1][2]) = <<>>
                /\ xml[n].kids[2][1] = "ele"
                /\ xml[xml[n].kids[2][2]].name = "value"

\* In the document of serializeMethodResponse(string) the string element is
\* node 5: methodResponse 1, params 2, param 3, value 4.
StringResponse ==
    /\ pc = "document"
    /\ input[1] = "response"
    /\ Kind(input[2]) = "string"
StringText == Val(input[2])
StringKids == xml[5].kids
HasTerminator(s) ==
    \E i \in 1..(Len(s) - 2) : s[i] = "]" /\ s[i + 1] = "]" /\ s[i + 2] = ">"

\* C10 as claimed: the empty string gives a string element without child;
\* a non-empty string with neither '<' nor '&' (also one containing "]]>") is
\* written as plain text; a string with '<' or '&' is written as CDATA.
C10_Original ==
    StringResponse =>
        /\ xml[5].name = "string"
        /\ StringKids =
              IF StringText = <<>> THEN <<>>
              ELSE IF \A i \in 1..Len(StringText) : StringText[i] \notin {"<", "&"}
              THEN <<<<"text", StringText>>>>
              ELSE <<<<"cdata", StringText>>>>

\* C10 amended: the empty string gives a string element without child; a
\* non-empty string with none of '<', '&' and "]]>" is written as plain text;
\* a string with '<', '&' or "]]>" is written as CDATA.
C10_ContentForm ==
    StringResponse =>
        /\ xml[5].name = "string"
        /\ StringKids =
              IF StringText = <<>> THEN <<>>
              ELSE IF /\ \A i \in 1..Len(StringText) : StringText[i] \notin {"<", "&"}
                      /\ ~HasTerminator(StringText)
              THEN <<<<"text", StringText>>>>
              ELSE <<<<"cdata", StringText>>>>

\* C10 witness: the string "]]>" was written, as a CDATA section.
C10_Witness ==
    /\ StringResponse
    /\ StringText = <<"]", "]", ">">>
    /\ StringKids = <<<<"cdata", StringText>>>>

RECURSIVE EncodedValues(_)
\* The number of values of supported kinds in v, v included.
EncodedValues(v) ==
    CASE v \in Unsupported -> 0
      [] Kind(v) = "array" ->
            LET RECURSIVE Sum(_)
                Sum(vs) == IF vs = <<>> THEN 0 ELSE EncodedValues(Head(vs)) + Sum(Tail(vs))
            IN  1 + Sum(Val(v))
      [] Kind(v) = "object" ->
            LET RECURSIVE SumM(_)
                SumM(ms) == IF ms = <<>> THEN 0
                            ELSE EncodedValues(Head(ms)[2]) + SumM(Tail(ms))
            IN  1 + SumM(Val(v))
      [] OTHER -> 1

\* C11: a value of an unsupported kind (undefined, function, symbol), at top
\* level, in an array or in a struct, leaves no element in the document: the
\* finished document holds one value element per value of a supported kind,
\* and none for the others.
C11_UnsupportedLeavesNoElement ==
    (pc = "document" /\ input[1] = "response")
        => Cardinality({n \in 1..Len(xml) : xml[n].name = "value"})
              = EncodedValues(input[2])

\* The step is the handler of closetag el, or of opentag name, whichever
\* specification feeds it.
Closing(el) ==
    \/ /\ pc = "events"
       /\ nev' = nev + 1
       /\ \E offset \in OffsetsRead(el) : OnClosetag(el, offset)
    \/ /\ pc = "feed"
       /\ FeedClosetag
       /\ Head(queue) = Close(el)
Opening(name) ==
    \/ /\ pc = "events"
       /\ nev' = nev + 1
       /\ OnOpentag(name)
    \/ /\ pc = "feed"
       /\ FeedOpentag
       /\ Head(queue) = Open(name)
TopMark == marks[Len(marks)]
AboveMark == SubSeq(stack, TopMark + 1, Len(stack))
PopsMarkLeavingOne ==
    /\ marks' = SubSeq(marks, 1, Len(marks) - 1)
    /\ Len(stack') = TopMark + 1
    /\ SubSeq(stack', 1, TopMark) = SubSeq(stack, 1, TopMark)

\* C13: closing ARRAY pops the top mark m and replaces the stack entries from
\* index m to the top by one Array holding them in stack order; the stack
\* length becomes m + 1 and the entries below m are unchanged, at any nesting.
C13_ArrayClose ==
    [][(marks # <<>> /\ Closing("ARRAY"))
        => /\ PopsMarkLeavingOne
           /\ stack'[TopMark + 1] = MkArr(AboveMark)]_vars

\* C13 witness: an array nested in an array was closed above an earlier value.
C13_Witness ==
    /\ pc = "events"
    /\ marks = <<>>
    /\ stack = <<Null, MkArr(<<MkArr(<<>>)>>)>>

\* The positions of the keys among the entries above the top mark, the key
\* read at such a position and the value paired with it.
KeyPositions == {i \in 1..Len(AboveMark) : i % 2 = 1}
KeyAt(i) == ToStr(AboveMark[i])
PairedWith(i) == IF i + 1 <= Len(AboveMark) THEN AboveMark[i + 1] ELSE Undefined
IsLastOccurrence(i) == \A j \in KeyPositions : j > i => KeyAt(j) # KeyAt(i)
StructPushed == Val(stack'[TopMark + 1])

BufferedText == Join(data)
RejectsText ==
    /\ stack' = stack
    /\ error' # Null
    /\ error = Null => (DeliversOne /\ LastDelivered_[1] = "error")
PushesOnly(v) ==
    /\ stack' = Append(stack, v)
    /\ delivered' = delivered
    /\ error' = error

\* C15: closing BOOLEAN pushes true for the text "1" and false for the text
\* "0"; for every other text it delivers an error and leaves the stack
\* unchanged.
C15_BooleanClose ==
    [][Closing("BOOLEAN")
        => IF BufferedText = <<"1">> THEN PushesOnly(MkBool(TRUE))
           ELSE IF BufferedText = <<"0">> THEN PushesOnly(MkBool(FALSE))
           ELSE RejectsText]_vars

\* C15 witness: the text "01" was rejected and nothing was pushed.
C15_Witness ==
    /\ pc = "feed"
    /\ error = MkError("Illegal boolean value", <<"0", "1">>)
    /\ stack = <<>>
    /\ Len(delivered) = 1

\* An optional leading minus followed by one or more digits and nothing else.
IntegerShaped(s) ==
    \E k \in {0, 1} :
        /\ Len(s) > k
        /\ k = 1 => s[1] = "-"
        /\ \A i \in (k + 1)..Len(s) :
              s[i] \in {"0", "1", "2", "3", "4", "5", "6", "7", "8", "9"}

\* C16: closing I8 pushes the buffered text itself, as a string, when it is an
\* optional minus followed by digits only; for every other text it delivers an
\* error and pushes nothing.  The entry pushed is never a native number.
C16_I8Close ==
    [][Closing("I8")
        => IF IntegerShaped(BufferedText) THEN PushesOnly(MkStr(BufferedText))
           ELSE RejectsText]_vars

\* C16 witness: an integer too large for a native number was pushed as text.
C16_Witness ==
    /\ pc = "feed"
    /\ stack = <<MkStr(BigIntegerText)>>
    /\ error = Null

\* The integer a wholly integer-shaped text denotes.
RECURSIVE DecimalValue(_, _)
DecimalValue(s, acc) ==
    IF s = <<>> THEN acc
    ELSE DecimalValue(Tail(s),
            10 * acc + (CHOOSE n \in 0..9 :
                           <<"0", "1", "2", "3", "4", "5", "6", "7", "8", "9">>[n + 1] = Head(s)))
IntegerDenoted(s) ==
    IF Head(s) = "-" THEN MkInt(0 - DecimalValue(Tail(s), 0)) ELSE MkInt(DecimalValue(s, 0))

\* C17: closing INT or I4 pushes the integer the buffered text denotes when the
\* whole text is a base-10 signed integer; for every other text ("12abc",
\* "1.5", "", "abc") it delivers an error and pushes nothing.
C17_IntClose ==
    [][(Closing("INT") \/ Closing("I4"))
        => IF IntegerShaped(BufferedText) THEN PushesOnly(IntegerDenoted(BufferedText))
           ELSE RejectsText]_vars

\* The tags the decoder is to ignore: DATA, PARAM, MEMBER and one outside the
\* vocabulary.
IgnoredTags == {"DATA", "PARAM", "MEMBER", "FOO"}

\* C18: the open and the close of a tag outside the vocabulary, and of DATA,
\* PARAM and MEMBER, deliver nothing and leave the value stack, the marks, the
\* envelope type, the response kind, the method name and the bare-value flag
\* unchanged.
C18_IgnoredTagsChangeNothing ==
    [][(\E t \in IgnoredTags : Opening(t) \/ Closing(t))
        => UNCHANGED <<stack, marks, type, responseType, methodname, value,
                       delivered>>]_vars

\* The document being read, the position of the event the parser emits next,
\* and the opentag that the VALUE closing there matches.
Here == Len(DocumentEvents) - Len(queue) + 1
Balanced(i) ==
    Cardinality({j \in (i + 1)..(Here - 1) : DocumentEvents[j] = Open("VALUE")})
        = Cardinality({j \in (i + 1)..(Here - 1) : DocumentEvents[j] = Close("VALUE")})
Matches(i) == DocumentEvents[i] = Open("VALUE") /\ Balanced(i)
ValueOpenedAt ==
    CHOOSE i \in 1..(Here - 1) :
        Matches(i) /\ \A j \in (i + 1)..(Here - 1) : ~Matches(j)
TypeTags == {"BOOLEAN", "INT", "I4", "I8", "DOUBLE", "STRING", "BASE64",
             "DATETIME.ISO8601", "NIL", "ARRAY", "STRUCT"}
TypeTagClosedSinceOpen ==
    \E j \in (ValueOpenedAt + 1)..(Here - 1) :
        \E t \in TypeTags : DocumentEvents[j] = Close(t)

\* C14: closing VALUE pushes one String, the buffered text, if no type tag was
\* closed since that VALUE was opened, and pushes nothing otherwise.
C14_ValueClose ==
    [][(pc = "feed" /\ Closing("VALUE"))
        => stack' = IF TypeTagClosedSinceOpen THEN stack
                    ELSE Append(stack, MkStr(BufferedText))]_vars

-----------------------------------------------------------------------------
(* SpecDate: callers set the options of the exported date formatter and    *)
(* encode Date values, in any order.                                       *)

MaxCalls == 5

\* Date values by what their getters answer: the UTC fields, the local
\* fields and getTimezoneOffset().
Dates ==
    { <<"date", <<"parts", <<2026, 11, 4, 4, 5, 6, 7>>, <<2026, 11, 4, 9, 35, 6, 7>>, -330>>>>,
      <<"date", <<"parts", <<1999, 12, 31, 23, 59, 59, 0>>, <<1999, 12, 31, 23, 59, 59, 0>>, 0>>>> }

\* The arguments given to setOpts: none, or an object naming some options.
OptsArguments ==
    { Undefined,
      <<"object", [colons |-> FALSE]>>,
      <<"object", [ms |-> TRUE, offset |-> TRUE]>>,
      <<"object", [local |-> FALSE, hyphens |-> TRUE]>> }

\* setOpts returning early when called without an argument.
setOpts_NoReset(arg) ==
    IF arg = Undefined THEN opts
    ELSE [k \in DOMAIN DEFAULT_OPTIONS |->
            IF k \in DOMAIN arg[2] THEN arg[2][k] ELSE DEFAULT_OPTIONS[k]]

\* setOpts keeping the options in force for those the argument omits.
setOpts_Merges(arg) ==
    LET source == IF arg = Undefined THEN DEFAULT_OPTIONS ELSE arg[2]
    IN  [k \in DOMAIN DEFAULT_OPTIONS |->
            IF k \in DOMAIN source THEN source[k] ELSE opts[k]]

\* DateFormatter.setOpts(opts): the options it leaves in this.opts
setOpts(arg) ==
    LET source == IF arg = Undefined THEN DEFAULT_OPTIONS ELSE arg[2]
    IN  [k \in DOMAIN DEFAULT_OPTIONS |->
            IF k \in DOMAIN source THEN source[k] ELSE DEFAULT_OPTIONS[k]]

InitDate ==
    /\ NoClient
    /\ InitDeserializer
    /\ input = Null
    /\ frames = <<>>
    /\ xml = <<>>
    /\ pending = <<>>
    /\ pc = "encode"
    /\ queue = <<>>
    /\ opts = DEFAULT_OPTIONS
    /\ others = <<>>
    /\ calls = <<>>

\* dateFormatter.setOpts(arg), called on the exported instance
SetOpts ==
    /\ pc = "encode"
    /\ Len(calls) < MaxCalls
    /\ \E arg \in OptsArguments :
          /\ opts' = setOpts(arg)
          /\ calls' = Append(calls, <<"setOpts", arg>>)
    /\ UNCHANGED <<input, frames, xml, pending, pc, queue, others>>
    /\ UNCHANGED desVars
    /\ UNCHANGED cliVars

\* serializeMethodResponse(date), up to the call of serializeValue
SerializeDate ==
    /\ pc = "encode"
    /\ Len(calls) < MaxCalls
    /\ \E date \in Dates :
          /\ input' = <<"response", date>>
          /\ xml' = Ele(Ele(Create("methodResponse"), 1, "params"), 2, "param")
          /\ frames' = <<Frame(date, 3)>>
    /\ pending' = <<>>
    /\ pc' = "walk"
    /\ UNCHANGED <<queue, opts, others, calls>>
    /\ UNCHANGED desVars
    /\ UNCHANGED cliVars

\* The text of the dateTime.iso8601 element of a response document:
\* methodResponse 1, params 2, param 3, value 4, dateTime.iso8601 5.
DateText == xml[5].kids[1][2]

\* return xml.doc().toString(): the caller has the document
ReturnDate ==
    /\ pc = "walk"
    /\ frames = <<>>
    /\ calls' = Append(calls, <<"serializeMethodResponse", input[2], DateText>>)
    /\ pc' = "encode"
    /\ UNCHANGED <<input, frames, xml, pending, queue, opts, others>>
    /\ UNCHANGED desVars
    /\ UNCHANGED cliVars

NextDate ==
    \/ SetOpts
    \/ SerializeDate
    \/ SerializeValue
    \/ ReturnDate

SpecDate == InitDate /\ [][NextDate]_vars

\* The encodes among the calls, and the argument of the latest setOpts call
\* before call i (<<"never", 0>> when there was none).
Encodes == {i \in 1..Len(calls) : calls[i][1] = "serializeMethodResponse"}
SetOptsBefore(i) == {j \in 1..(i - 1) : calls[j][1] = "setOpts"}
LatestSetOpts(i) ==
    IF SetOptsBefore(i) = {} THEN <<"never", 0>>
    ELSE calls[CHOOSE j \in SetOptsBefore(i) : \A j2 \in SetOptsBefore(i) : j2 <= j][2]

-----------------------------------------------------------------------------
(* SpecPair: three Deserializer instances, each piped its own document,    *)
(* their parsers' events arriving in any interleaving.  The variables hold *)
(* the fields of the instance whose handler runs; others holds the fields  *)
(* of every instance by its number, with a hole at the running one.        *)

\* The fields of the instance whose handler runs, with its stream.
This ==
    [type |-> type, responseType |-> responseType, stack |-> stack, marks |-> marks,
     data |-> data, methodname |-> methodname, value |-> value, callback |-> callback,
     error |-> error, delivered |-> delivered, nev |-> nev,
     input |-> input, queue |-> queue, pc |-> pc]

\* new Deserializer(), with the document its stream will carry
Fresh(doc) ==
    [type |-> "null", responseType |-> "null", stack |-> <<>>, marks |-> <<>>,
     data |-> <<>>, methodname |-> Null, value |-> FALSE, callback |-> "null",
     error |-> Null, delivered |-> <<>>, nev |-> 0,
     input |-> <<"peer", doc>>, queue |-> <<>>, pc |-> "document"]

Running == [Fresh(<<>>) EXCEPT !.pc = "running"]
Instances == 1..Len(others)
Self == CHOOSE k \in Instances : others[k].pc = "running"
Instance(k) == IF others[k].pc = "running" THEN This ELSE others[k]

\* Documents for the instances: an int, a bare string in a CDATA section, an
\* array of two values, and a response cut off after <params>.
PairDocs ==
    { PeerResponse(PeerInt(<<"4", "2">>)),
      PeerResponse(<<Open("VALUE"), <<"cdata", <<"a", "b">>>>, Close("VALUE")>>),
      PeerResponse(<<Open("VALUE"), Open("ARRAY"), Open("DATA")>>
                   \o PeerInt(<<"1">>) \o <<Open("VALUE"), Chars(<<"x">>), Close("VALUE")>>
                   \o <<Close("DATA"), Close("ARRAY"), Close("VALUE")>>),
      <<Open("METHODRESPONSE"), Open("PARAMS")>> }

InitPair ==
    /\ NoClient
    /\ InitDeserializer
    /\ \E doc \in PairDocs, doc2 \in PairDocs :
          /\ input = <<"peer", doc>>
          /\ others = <<Running, Fresh(doc), Fresh(doc2)>>
    /\ frames = <<>>
    /\ xml = <<>>
    /\ pending = <<>>
    /\ pc = "document"
    /\ queue = <<>>
    /\ opts = DEFAULT_OPTIONS
    /\ calls = <<>>

\* Dispatch with the value stack held once for all instances.
Dispatch_StaticStack ==
    \E k \in Instances \ {Self} :
        /\ others' = [others EXCEPT ![Self] = This, ![k] = Running]
        /\ type' = others[k].type
        /\ responseType' = others[k].responseType
        /\ stack' = stack
        /\ marks' = others[k].marks
        /\ data' = others[k].data
        /\ methodname' = others[k].methodname
        /\ value' = others[k].value
        /\ callback' = others[k].callback
        /\ error' = others[k].error
        /\ delivered' = others[k].delivered
        /\ nev' = others[k].nev
        /\ input' = others[k].input
        /\ queue' = others[k].queue
        /\ pc' = others[k].pc
        /\ UNCHANGED <<frames, xml, pending, opts, calls>>
        /\ UNCHANGED cliVars

\* The next event belongs to another instance: its listeners are bound to it,
\* so the handlers read and write that instance's fields.
Dispatch ==
    \E k \in Instances \ {Self} :
        /\ others' = [others EXCEPT ![Self] = This, ![k] = Running]
        /\ type' = others[k].type
        /\ responseType' = others[k].responseType
        /\ stack' = others[k].stack
        /\ marks' = others[k].marks
        /\ data' = others[k].data
        /\ methodname' = others[k].methodname
        /\ value' = others[k].value
        /\ callback' = others[k].callback
        /\ error' = others[k].error
        /\ delivered' = others[k].delivered
        /\ nev' = others[k].nev
        /\ input' = others[k].input
        /\ queue' = others[k].queue
        /\ pc' = others[k].pc
        /\ UNCHANGED <<frames, xml, pending, opts, calls>>
        /\ UNCHANGED cliVars

NextPair ==
    \/ Dispatch
    \/ PipeResponse
    \/ FeedOpentag
    \/ FeedClosetag
    \/ FeedText
    \/ FeedCData
    \/ FeedEnd

SpecPair == InitPair /\ [][NextPair]_vars

-----------------------------------------------------------------------------
(* SpecEncode: a DateFormatter constructed with any options encodes a Date *)
(* in a machine of any time zone.                                          *)

\* Every value the five options can take together.
AllOptions ==
    [colons : BOOLEAN, hyphens : BOOLEAN, local : BOOLEAN, ms : BOOLEAN, offset : BOOLEAN]

\* getTimezoneOffset() over the zones of the world, UTC-14:00 to UTC+14:00.
ZoneOffsets == (0 - 840)..840

\* 2026-11-04T14:30:06.007Z as a Date in a machine whose getTimezoneOffset()
\* is tzo: the UTC getters, the local getters, the offset.
DateInZone(tzo) ==
    LET minutes == 870 - tzo
    IN  <<"parts", <<2026, 11, 4, 14, 30, 6, 7>>,
          <<2026, 11, 4 + (minutes \div 1440), (minutes % 1440) \div 60, minutes % 60, 6, 7>>,
          tzo>>

InitEncode ==
    /\ NoClient
    /\ InitDeserializer
    /\ input = Null
    /\ frames = <<>>
    /\ xml = <<>>
    /\ pending = <<>>
    /\ pc = "encode"
    /\ queue = <<>>
    /\ opts \in AllOptions
    /\ others = <<>>
    /\ calls = <<>>

\* formatter.encodeIso8601(date)
EncodeDate ==
    /\ pc = "encode"
    /\ calls = <<>>
    /\ \E tzo \in ZoneOffsets :
          calls' = <<<<"encodeIso8601", tzo, EncodeIso8601(DateInZone(tzo), opts)>>>>
    /\ UNCHANGED <<input, frames, xml, pending, pc, queue, opts, others>>
    /\ UNCHANGED desVars
    /\ UNCHANGED cliVars

NextEncode == EncodeDate

SpecEncode == InitEncode /\ [][NextEncode]_vars

\* What follows the seconds (and the milliseconds) in an encoded text.
SuffixStart == 15 + (IF opts.hyphens THEN 2 ELSE 0) + (IF opts.colons THEN 2 ELSE 0)
                  + (IF opts.ms THEN 4 ELSE 0) + 1
SuffixOf(text) == SubSeq(text, SuffixStart, Len(text))
TwoDigits(s, p) == DigitVal(s[p]) * 10 + DigitVal(s[p + 1])

\* sign HH:MM with HH*60+MM = |k|, '+' for a zone ahead of UTC (a negative
\* getTimezoneOffset()) and '-' for a zone behind.
SignedOffset(sfx, tzo) ==
    /\ Len(sfx) = 6
    /\ sfx[1] \in {"+", "-"}
    /\ IsDigit(sfx[2]) /\ IsDigit(sfx[3]) /\ sfx[4] = ":" /\ IsDigit(sfx[5]) /\ IsDigit(sfx[6])
    /\ TwoDigits(sfx, 2) * 60 + TwoDigits(sfx, 5) = (IF tzo < 0 THEN 0 - tzo ELSE tzo)
    /\ (tzo < 0 => sfx[1] = "+")
    /\ (tzo > 0 => sfx[1] = "-")

\* C21: encodeIso8601 appends "Z" whenever local is false, nothing when local
\* is true and offset false, and, when both are true, sign HH:MM with
\* HH*60+MM equal to the zone's distance from UTC in minutes, for every zone
\* from -14:00 to +14:00.
C21_Suffix ==
    \A i \in 1..Len(calls) :
        calls[i][1] = "encodeIso8601" =>
            LET sfx == SuffixOf(calls[i][3])
            IN  /\ ~opts.local => sfx = <<"Z">>
                /\ (opts.local /\ ~opts.offset) => sfx = <<>>
                /\ (opts.local /\ opts.offset) => SignedOffset(sfx, calls[i][2])

\* The setOpts calls among the calls, and what the claim says the options are
\* after setOpts(arg).
SetOptsCalls == {i \in 1..Len(calls) : calls[i][1] = "setOpts"}
LastSetOpts == calls[CHOOSE i \in SetOptsCalls : \A j \in SetOptsCalls : j <= i][2]
Defaults == [colons |-> TRUE, hyphens |-> FALSE, local |-> TRUE, ms |-> FALSE, offset |-> FALSE]
Supplied(arg, k) == arg # Undefined /\ k \in DOMAIN arg[2]

\* C30: after any sequence of setOpts calls (and encodes) the options are
\* determined by the last setOpts call alone: every option has the value that
\* call supplied, or its default (colons true, hyphens false, local true,
\* ms false, offset false) when the call did not supply it or had no argument;
\* DEFAULT_OPTIONS stays at these defaults.
C30_LastCallAlone ==
    /\ DEFAULT_OPTIONS = Defaults
    /\ DOMAIN opts = {"colons", "hyphens", "local", "ms", "offset"}
    /\ \A k \in DOMAIN opts :
          opts[k] = IF SetOptsCalls # {} /\ Supplied(LastSetOpts, k)
                    THEN LastSetOpts[2][k]
                    ELSE Defaults[k]

\* C30 witness: setOpts({ms: true, offset: true}), then setOpts({colons:
\* false}), then setOpts(): every option is back at its default; before the
\* last call ms and offset were already back at theirs.
C30_Witness ==
    /\ Len(calls) = 3
    /\ calls[1] = <<"setOpts", <<"object", [ms |-> TRUE, offset |-> TRUE]>>>>
    /\ calls[2] = <<"setOpts", <<"object", [colons |-> FALSE]>>>>
    /\ calls[3] = <<"setOpts", Undefined>>
    /\ opts = Defaults

\* C25: in every state of a Deserializer, under any sequence of events, the
\* marks are non-decreasing from bottom to top and none exceeds the length of
\* the value stack.
C25_MarksWithinStack ==
    /\ \A i \in 1..Len(marks) : marks[i] <= Len(stack)
    /\ \A i \in 1..(Len(marks) - 1) : marks[i] <= marks[i + 1]

\* C25 witness: ARRAY and STRUCT opened, a nil read, ARRAY closed: the array
\* took the STRUCT's mark, and the ARRAY's own mark stays below it.
C25_Witness ==
    /\ pc = "events"
    /\ marks = <<0>>
    /\ stack = <<MkArr(<<Null>>)>>

Underflow(el) ==
    MkError(IF el = "ARRAY" THEN "Array mark stack underflow"
            ELSE "Struct mark stack underflow", <<>>)

\* C26 as claimed: a closetag ARRAY or STRUCT with no mark on the marks stack
\* delivers an error and leaves the value stack and the marks unchanged.
C26_Original ==
    [][\A el \in {"ARRAY", "STRUCT"} :
        (marks = <<>> /\ Closing(el))
        => /\ DeliversOne
           /\ LastDelivered_[1] = "error"
           /\ stack' = stack
           /\ marks' = marks]_vars

\* C26 amended: such a closetag leaves the value stack and the marks
\* unchanged; it delivers the underflow error when no error was recorded
\* before, and delivers nothing when one was.
C26_UnderflowOutcome ==
    [][\A el \in {"ARRAY", "STRUCT"} :
        (marks = <<>> /\ Closing(el))
        => /\ stack' = stack
           /\ marks' = marks
           /\ IF error = Null
              THEN /\ DeliversOne
                   /\ LastDelivered_ = <<"error", Underflow(el)>>
                   /\ error' = Underflow(el)
              ELSE delivered' = delivered /\ error' = error]_vars

\* C26 witness: two values were completed at top level, then ARRAY closed
\* with no ARRAY open: the error is delivered and the values are not folded.
C26_Witness ==
    /\ pc = "events"
    /\ marks = <<>>
    /\ Len(stack) = 2
    /\ error = Underflow("ARRAY")
    /\ delivered = <<<<"error", Underflow("ARRAY")>>>>

\* The events of the document read so far, the latest opentag among them and
\* the character data, text or cdata, that arrived after it, in order.
LastOpen ==
    IF \E j \in 1..(Here - 1) : DocumentEvents[j][1] = "open"
    THEN CHOOSE j \in 1..(Here - 1) :
            /\ DocumentEvents[j][1] = "open"
            /\ \A j2 \in (j + 1)..(Here - 1) : DocumentEvents[j2][1] # "open"
    ELSE 0
RECURSIVE CharacterData(_, _)
CharacterData(from, to) ==
    IF from > to THEN <<>>
    ELSE (IF DocumentEvents[from][1] \in {"text", "cdata"} THEN DocumentEvents[from][2] ELSE <<>>)
            \o CharacterData(from + 1, to)
TextSinceOpen == CharacterData(LastOpen + 1, Here - 1)

ScalarTags == {"BOOLEAN", "INT", "I4", "I8", "DOUBLE", "STRING", "NAME", "BASE64",
               "DATETIME.ISO8601", "METHODNAME"}

\* C24: the text a scalar close tag decodes is the concatenation, in arrival
\* order, of the text and cdata chunks of the document since the most recent
\* opentag: the close has the outcome of decoding that text, however the
\* character data was cut into chunks and whichever of them were cdata.
C24_DecodesConcatenation ==
    [][\A el \in ScalarTags :
        (pc = "feed" /\ Closing(el))
        => /\ BufferedText = TextSinceOpen
           /\ \E offset \in OffsetsRead(el) :
                 LET r == EndOf(el, TextSinceOpen, offset)
                 IN  IF r.thrown = Null
                     THEN /\ stack' = r.stack
                          /\ methodname' = r.methodname
                          /\ delivered' = delivered
                     ELSE /\ stack' = stack
                          /\ error = Null => /\ error' = r.thrown
                                              /\ DeliversOne
                                              /\ LastDelivered_ = <<"error", r.thrown>>]_vars

\* C24 witness: <string> closed after "a" arrived as cdata and "b" as text:
\* the string "ab" was pushed.
C24_Witness ==
    /\ pc = "feed"
    /\ Here > 3
    /\ DocumentEvents[Here - 1] = Close("STRING")
    /\ DocumentEvents[Here - 2] = <<"text", <<"b">>>>
    /\ DocumentEvents[Here - 3] = <<"cdata", <<"a">>>>
    /\ stack = <<MkStr(<<"a", "b">>)>>

\* The children of a value tree's node, in index order or key-list order.
ChildrenOf(v) ==
    IF Kind(v) = "array" THEN Val(v)
    ELSE IF Kind(v) = "object" THEN [i \in 1..Len(Val(v)) |-> Val(v)[i][2]]
    ELSE <<>>

RECURSIVE SumOver(_, _, _)
SumOver(F(_), vs, from) ==
    IF from > Len(vs) THEN 0 ELSE F(vs[from]) + SumOver(F, vs, from + 1)

RECURSIVE NodesOf(_)
NodesOf(v) == 1 + SumOver(NodesOf, ChildrenOf(v), 1)

\* The iterations of the loop a frame for v takes: one for v itself, and for
\* a compound those of its children and one more after each child.
RECURSIVE StepsOf(_)
StepsOf(v) == 1 + Len(ChildrenOf(v)) + SumOver(StepsOf, ChildrenOf(v), 1)

\* The iterations a frame still takes, and those the whole frame stack takes.
StepsLeft(frame) ==
    IF frame.index = -1 THEN StepsOf(frame.value)
    ELSE (Len(ChildrenOf(frame.value)) - frame.index) + 1
            + SumOver(StepsOf, ChildrenOf(frame.value), frame.index + 1)
RECURSIVE Variant(_)
Variant(fs) == IF fs = <<>> THEN 0 ELSE StepsLeft(Head(fs)) + Variant(Tail(fs))

RECURSIVE ValuesUnder(_, _)
RECURSIVE ValuesUnderKids(_, _)
\* The value elements below node n with no value element in between, in
\* document order.
ValuesUnderKids(x, kids) ==
    IF kids = <<>> THEN <<>>
    ELSE (IF Head(kids)[1] # "ele" THEN <<>>
          ELSE IF x[Head(kids)[2]].name = "value" THEN <<Head(kids)[2]>>
          ELSE ValuesUnder(x, Head(kids)[2]))
         \o ValuesUnderKids(x, Tail(kids))
ValuesUnder(x, n) == ValuesUnderKids(x, x[n].kids)

\* The texts of the name elements of a struct element's members, in order.
MemberNames(x, struct) ==
    [i \in 1..Len(x[struct].kids) |->
        LET member == x[struct].kids[i][2]
            name == x[member].kids[1][2]
        IN  x[name].kids[1][2]]

RECURSIVE EncodesTree(_, _, _)
\* Value element vn stands for the tree v: one value element for each child,
\* in the children's order, each standing for its child; for a struct the
\* members carry the keys in key-list order.
EncodesTree(x, vn, v) ==
    /\ x[vn].name = "value"
    /\ Len(ValuesUnder(x, vn)) = Len(ChildrenOf(v))
    /\ \A i \in 1..Len(ChildrenOf(v)) :
          EncodesTree(x, ValuesUnder(x, vn)[i], ChildrenOf(v)[i])
    /\ Kind(v) = "array" => x[x[vn].kids[1][2]].name = "array"
    /\ Kind(v) = "object" =>
          /\ x[x[vn].kids[1][2]].name = "struct"
          /\ MemberNames(x, x[vn].kids[1][2]) = ObjectKeys(v)

\* The values serializeValue was called for so far.
Serialized ==
    IF input[1] = "call" THEN SubSeq(input[3], 1, Len(input[3]) - Len(pending))
    ELSE <<input[2]>>

\* Every element was created after its parent and after its earlier siblings.
CreatedInOrder(x) ==
    \A n \in 1..Len(x) :
        /\ x[n].parent < n
        /\ \A i \in 1..Len(x[n].kids) : \A j \in 1..Len(x[n].kids) :
              (i < j /\ x[n].kids[i][1] = "ele" /\ x[n].kids[j][1] = "ele")
              => (n < x[n].kids[i][2] /\ x[n].kids[i][2] < x[n].kids[j][2])

\* C23: every iteration of the loop of serializeValue takes the frame stack
\* one step closer to empty (so the loop ends, after as many iterations as the
\* tree calls for); when the stack is empty the document holds exactly one
\* value element for every node of the tree, the children of each array in
\* index order and of each struct in key-list order; and no element is ever
\* created before its parent or before an earlier sibling.
C23_LoopEndsWithTree ==
    [][(pc = "walk" /\ frames # <<>>)
        => /\ Variant(frames') = Variant(frames) - 1
           /\ CreatedInOrder(xml')
           /\ frames' = <<>> =>
                 /\ Variant(frames) = 1
                 /\ Len(ValuesUnder(xml', 1)) = Len(Serialized)
                 /\ \A i \in 1..Len(Serialized) :
                       EncodesTree(xml', ValuesUnder(xml', 1)[i], Serialized[i])
                 /\ Cardinality({n \in 1..Len(xml') : xml'[n].name = "value"})
                       = SumOver(NodesOf, Serialized, 1)]_vars

\* C23 witness: the loop has ended for a struct of an array of two values
\* and an integer: five value elements.
C23_Witness ==
    /\ pc = "walk"
    /\ frames = <<>>
    /\ input = <<"response", MkObj(<<<<<<"b">>, MkArr(<<Null, MkBool(TRUE)>>)>>,
                                     <<<<"a">>, MkInt(12)>>>>)>>
    /\ Cardinality({n \in 1..Len(xml) : xml[n].name = "value"}) = 5

-----------------------------------------------------------------------------
(* Cookies (cookies.mts).  The jar is the object this.cookies: its own     *)
(* properties in insertion order, as <<name, cookie>> pairs, a cookie being *)
(* <<"cookie", value, expires>>; expires 0 stands for no expires at all.   *)

MaxTime == 2

\* The names Object.prototype gives to every object created by {}.
Inherited == {<<"t", "o", "S", "t", "r", "i", "n", "g">>}

HasOwn(j, name) == \E i \in 1..Len(j) : j[i][1] = name

\* this.cookies[name]: the own property, else what the prototype has.
Lookup(j, name) ==
    IF HasOwn(j, name) THEN j[CHOOSE i \in 1..Len(j) : j[i][1] = name][2]
    ELSE IF name \in Inherited THEN <<"function", 0, 0>>
    ELSE <<"undefined", 0, 0>>

\* delete this.cookies[name]
Delete(j, name) == SelectSeq(j, LAMBDA e : e[1] # name)

\* this.cookies[name] = cookie: a new key goes last, a known key stays put
Put(j, name, cookie) ==
    IF HasOwn(j, name)
    THEN [i \in 1..Len(j) |-> IF j[i][1] = name THEN <<name, cookie>> ELSE j[i]]
    ELSE Append(j, <<name, cookie>>)

\* checkNotExpired(name, cookie) at time t: what it returns and the jar it
\* leaves.  cookie is <<"undefined", 0, 0>> when the argument is omitted.
checkNotExpired(j, t, name, cookie) ==
    LET c == IF cookie[1] # "undefined" THEN cookie ELSE Lookup(j, name)
    IN  IF c[1] = "undefined" THEN [ok |-> FALSE, jar |-> j]
        ELSE IF c[1] = "cookie" /\ c[3] # 0 /\ t > c[3]
        THEN [ok |-> FALSE, jar |-> Delete(j, name)]
        ELSE [ok |-> TRUE, jar |-> j]

\* cookies.get(name): what it returns and the jar it leaves.  The value
\* property of an inherited function is undefined.
CookiesGetResult(j, t, name) ==
    LET cookie == Lookup(j, name)
        chk == checkNotExpired(j, t, name, <<"undefined", 0, 0>>)
    IN  IF cookie[1] = "undefined" THEN [returns |-> Null, jar |-> j]
        ELSE IF chk.ok
        THEN [returns |-> IF Lookup(chk.jar, name)[1] = "cookie"
                          THEN MkStr(Lookup(chk.jar, name)[2]) ELSE Undefined,
              jar |-> chk.jar]
        ELSE [returns |-> Null, jar |-> chk.jar]

\* cookies.set(name, value, options): the jar it leaves.  options is
\* Undefined or <<"object", expires>>.
CookiesSetResult(j, t, name, val, options) ==
    LET cookie == <<"cookie", val, IF options = Undefined THEN 0 ELSE options[2]>>
        chk == checkNotExpired(j, t, name, cookie)
    IN  IF chk.ok THEN Put(chk.jar, name, cookie) ELSE chk.jar

RECURSIVE ParseResponseResult(_, _, _)
\* cookies.parseResponse(headers): set(name, value, {expires}) for each
\* Set-Cookie line, given as <<name, value, expires>>.
ParseResponseResult(j, t, list) ==
    IF list = <<>> THEN j
    ELSE ParseResponseResult(
            CookiesSetResult(j, t, Head(list)[1], Head(list)[2], <<"object", Head(list)[3]>>),
            t, Tail(list))

\* cookies.toString(): the text and the jar it leaves.  The filter drops
\* (and deletes) the expired cookies; the rest are joined as name=value.
CookiesToStringResult(j, t) ==
    LET kept == SelectSeq(j, LAMBDA e : ~(e[2][3] # 0 /\ t > e[2][3]))
    IN  [returns |-> JoinWith([i \in 1..Len(kept) |-> kept[i][1] \o <<"=">> \o kept[i][2][2]],
                              <<";">>),
         jar |-> kept]

\* cookies.composeRequest(headers): headers["Cookie"] as it leaves it
ComposeRequest(j, t, h) ==
    IF CookiesToStringResult(j, t).returns = <<>> THEN h
    ELSE MkStr(CookiesToStringResult(j, t).returns)

-----------------------------------------------------------------------------
(* SpecCookies: a Client with cookies enabled.  calls keeps the latest set *)
(* of each cookie name and the latest call that returned something.        *)

CookieNames == {<<"a">>, <<"b">>}
CookieValues == {<<"1">>, <<"2">>}
Expiries == 0..1
SetCookieLists ==
    { <<>>,
      <<<<<<"a">>, <<"1">>, 1>>>>,
      <<<<<<"a">>, <<"2">>, 1>>, <<<<"b">>, <<"1">>, 0>>>>,
      <<<<<<"b">>, <<"2">>, 1>>>> }

LogKey(e) == IF e[1] = "set" THEN <<"set", e[2]>> ELSE <<"result", <<>>>>
Logged(log, e) == Append(SelectSeq(log, LAMBDA c : LogKey(c) # LogKey(e)), e)
RECURSIVE LoggedSets(_, _)
LoggedSets(log, list) ==
    IF list = <<>> THEN log
    ELSE LoggedSets(Logged(log, <<"set", Head(list)[1], Head(list)[2], Head(list)[3]>>),
                    Tail(list))

InitCookies ==
    /\ InitDeserializer
    /\ input = Null
    /\ frames = <<>>
    /\ xml = <<>>
    /\ pending = <<>>
    /\ pc = "client"
    /\ queue = <<>>
    /\ opts = DEFAULT_OPTIONS
    /\ others = <<>>
    /\ calls = <<>>
    /\ NoClient

\* time passes
Tick ==
    /\ now < MaxTime
    /\ now' = now + 1
    /\ UNCHANGED <<jar, headers, reported, listeners, others, calls>>
    /\ UNCHANGED desVars
    /\ UNCHANGED serVars

\* cookies.set(name, value, options); client.setCookie(name, value) is the
\* call without options
CookiesSetCall(name, val, options) ==
    /\ pc \in {"client", "request"}
    /\ jar' = CookiesSetResult(jar, now, name, val, options)
    /\ calls' = Logged(calls, <<"set", name, val,
                                IF options = Undefined THEN 0 ELSE options[2]>>)
    /\ UNCHANGED <<now, headers, reported, listeners, others>>
    /\ UNCHANGED desVars
    /\ UNCHANGED serVars

CookiesSet ==
    \E name \in CookieNames, val \in CookieValues,
       options \in {Undefined} \cup {<<"object", e>> : e \in Expiries} :
       CookiesSetCall(name, val, options)

\* cookies.get(name); client.getCookie(name)
CookiesGet(name) ==
    /\ pc \in {"client", "request"}
    /\ jar' = CookiesGetResult(jar, now, name).jar
    /\ calls' = Logged(calls, <<"get", name, CookiesGetResult(jar, now, name).returns>>)
    /\ UNCHANGED <<now, headers, reported, listeners, others>>
    /\ UNCHANGED desVars
    /\ UNCHANGED serVars

GetCookie == \E name \in CookieNames \cup Inherited : CookiesGet(name)

\* cookies.toString()
CookiesToString ==
    /\ pc \in {"client", "request"}
    /\ jar' = CookiesToStringResult(jar, now).jar
    /\ calls' = Logged(calls, <<"toString", MkStr(CookiesToStringResult(jar, now).returns)>>)
    /\ UNCHANGED <<now, headers, reported, listeners, others>>
    /\ UNCHANGED desVars
    /\ UNCHANGED serVars

\* client.methodCall("m", [], callback): the document is serialized, the
\* headers are composed and the request is sent with them
MethodCall ==
    /\ pc = "client"
    /\ input' = <<"call", <<"m">>, <<>>>>
    /\ xml' = Ele(Txt(Ele(Create("methodCall"), 1, "methodName"), 2, <<"m">>), 1, "params")
    /\ headers' = ComposeRequest(jar, now, headers)
    /\ jar' = CookiesToStringResult(jar, now).jar
    /\ calls' = Logged(calls, <<"request", ComposeRequest(jar, now, headers)>>)
    /\ reported' = <<>>
    /\ pc' = "request"
    /\ UNCHANGED <<frames, pending, queue, opts, now, listeners, others>>
    /\ UNCHANGED desVars

\* The response callback of methodCall for a status other than 404, given
\* the Set-Cookie lines of the response: the headers are parsed and a new
\* Deserializer is piped the response.
ResponseWith(list) ==
    /\ jar' = ParseResponseResult(jar, now, list)
    /\ calls' = LoggedSets(calls, list)
    /\ type' = "null"
    /\ responseType' = "null"
    /\ stack' = <<>>
    /\ marks' = <<>>
    /\ data' = <<>>
    /\ methodname' = Null
    /\ value' = FALSE
    /\ error' = Null
    /\ delivered' = <<>>
    /\ nev' = 0
    /\ callback' = "response"
    /\ UNCHANGED <<now, headers, reported, listeners, others>>
    /\ UNCHANGED <<input, frames, xml, pending, queue, opts>>

Response ==
    /\ pc = "request"
    /\ pc' = "client"
    /\ \E list \in SetCookieLists : ResponseWith(list)

\* The response callback of methodCall for status 404
ResponseNotFound ==
    /\ pc = "request"
    /\ pc' = "client"
    /\ reported' = Append(reported, <<"error", MkError("Not Found", <<>>)>>)
    /\ UNCHANGED <<jar, now, headers, listeners, others, calls>>
    /\ UNCHANGED desVars
    /\ UNCHANGED <<input, frames, xml, pending, queue, opts>>

NextCookies ==
    \/ Tick
    \/ CookiesSet
    \/ GetCookie
    \/ CookiesToString
    \/ MethodCall
    \/ Response
    \/ ResponseNotFound

SpecCookies == InitCookies /\ [][NextCookies]_vars

-----------------------------------------------------------------------------
(* C29: what get returns, and what expiry removes                          *)

\* The latest set of a name that calls records, <<>> when there is none
LatestSet(name) ==
    LET S == {i \in 1..Len(calls) : calls[i][1] = "set" /\ calls[i][2] = name}
    IN  IF S = {} THEN <<>> ELSE calls[CHOOSE i \in S : TRUE]

\* What the claim says get(name) returns at the current time
ClaimedGet(name) ==
    IF LatestSet(name) = <<>> THEN Null
    ELSE IF LatestSet(name)[4] = 0 \/ LatestSet(name)[4] >= now
    THEN MkStr(LatestSet(name)[3])
    ELSE Null

ExpiredNow(cookie) == cookie[3] # 0 /\ now > cookie[3]

\* C29: get(name) returns the value of the most recent set of that name
\* when that set carried no expiry or one not earlier than the current
\* time, and null otherwise; a set whose expiry is already past leaves no
\* cookie of that name in the jar, and get and toString remove the expired
\* cookies they find.
C29_GetReturnsLatestSet ==
    [][ /\ \A name \in CookieNames \cup Inherited :
              CookiesGet(name) =>
                  /\ calls'[Len(calls')][3] = ClaimedGet(name)
                  /\ (HasOwn(jar, name) /\ ExpiredNow(Lookup(jar, name))
                          => ~HasOwn(jar', name))
        /\ \A name \in CookieNames, val \in CookieValues, e \in Expiries :
              CookiesSetCall(name, val, <<"object", e>>) /\ e # 0 /\ now > e
                  => ~HasOwn(jar', name)
        /\ CookiesToString =>
              \A i \in 1..Len(jar') : ~ExpiredNow(jar'[i][2]) ]_vars

-----------------------------------------------------------------------------
(* C22: the Cookie header of a request                                     *)

\* The stored cookies that have not expired at the current time, as the
\* name=value texts a Cookie header gives them
LiveCookies ==
    LET live == SelectSeq(jar, LAMBDA e : ~ExpiredNow(e[2]))
    IN  [i \in 1..Len(live) |-> live[i][1] \o <<"=">> \o live[i][2][2]]

RECURSIVE Only(_, _, _)
\* The elements of seq whose index is in I, from index i on
Only(seq, I, i) ==
    IF i > Len(seq) THEN <<>>
    ELSE (IF i \in I THEN <<seq[i]>> ELSE <<>>) \o Only(seq, I, i + 1)

\* C22: the Cookie header sent with a request names only cookies that are
\* stored and unexpired when the request is composed, and there is no
\* Cookie header when no cookie is.
C22_CookieHeaderIsCurrent ==
    [][ MethodCall =>
          \/ headers' = Undefined
          \/ \E I \in (SUBSET (1..Len(LiveCookies))) \ {{}} :
                headers' = MkStr(JoinWith(Only(LiveCookies, I, 1), <<";">>)) ]_vars

-----------------------------------------------------------------------------
(* SpecClient: one Client.methodCall, from the request to the events of    *)
(* the response body.  The caller's callback is called directly            *)
(* (reported) and by the wrapper handed to deserializeMethodResponse,      *)
(* which passes on every delivery of the Deserializer (delivered).         *)

RequestErrors == {MkError("socket hang up", <<>>), MkError("ECONNREFUSED", <<>>)}

\* The response callback of methodCall for a status other than 404 whose
\* headers set no cookie; the events of the body follow
ResponseArrives ==
    /\ pc = "request"
    /\ reported = <<>>
    /\ pc' = "events"
    /\ ResponseWith(<<>>)

\* request.on("error", callback): the request emits its error event, once
RequestError ==
    /\ pc \in {"request", "client", "events"}
    /\ input # Null
    /\ \A i \in 1..Len(reported) : reported[i][2] \notin RequestErrors
    /\ \E err \in RequestErrors : reported' = Append(reported, <<"error", err>>)
    /\ UNCHANGED <<jar, now, headers, listeners, others, calls>>
    /\ UNCHANGED desVars
    /\ UNCHANGED serVars

\* A response comes only to a request that has not failed.
NotFoundArrives == reported = <<>> /\ ResponseNotFound

NextClient ==
    \/ MethodCall
    \/ RequestError
    \/ NotFoundArrives
    \/ ResponseArrives
    \/ Opentag
    \/ Closetag
    \/ Text
    \/ CData
    \/ ParserEnd
    \/ ParserError
    \/ StreamError

SpecClient == InitCookies /\ [][NextClient]_vars

\* The calls of the caller's callback so far
CallbackCalls == reported \o delivered

\* C27: the callback given to methodCall is invoked at most once, whatever
\* the order of the request's error, the response, the response stream's
\* error and the decoder's end.
C27_CallbackAtMostOnce == Len(CallbackCalls) <= 1

-----------------------------------------------------------------------------
(* SpecServer: one request handled by Server.handleMethodCall.  The        *)
(* callback it hands to deserializeMethodCall runs at every delivery of    *)
(* the Deserializer; calls holds what the reply functions wrote.           *)

MaxReplies == 1

RECURSIVE serializeValue(_, _, _)
\* serializeValue(value, xml): the while loop run until the stack is empty
serializeValue(x, fs, o) ==
    IF fs = <<>> THEN x
    ELSE serializeValue(serializeValueStep(x, fs, o).xml,
                        serializeValueStep(x, fs, o).frames, o)

\* Serializer.serializeFault(fault)
serializeFault(fault, o) ==
    serializeValue(Ele(Create("methodResponse"), 1, "fault"), <<Frame(fault, 2)>>, o)

\* Serializer.serializeMethodResponse(result)
serializeMethodResponse(result, o) ==
    serializeValue(Ele(Ele(Create("methodResponse"), 1, "params"), 2, "param"),
                   <<Frame(result, 3)>>, o)

\* The arguments the callback of handleMethodCall gets from a delivery
MethodNameOf(d) == IF d[1] = "success" THEN d[2] ELSE Undefined
ParamsOf(d) == IF d[1] = "success" THEN MkArr(d[3]) ELSE Undefined

\* methodName && this.listenerCount(methodName) > 0
HasListener(d) ==
    /\ d[1] = "success"
    /\ Truthy(MethodNameOf(d))
    /\ Val(MethodNameOf(d)) \in listeners

\* The callback of handleMethodCall on a delivery: the event it emits and
\* the status it writes at once (0 when it writes nothing)
ServerCallback(d) ==
    IF HasListener(d)
    THEN [event |-> Val(MethodNameOf(d)), args |-> <<Null, ParamsOf(d), "reply">>,
          status |-> 0]
    ELSE [event |-> <<"N", "o", "t", "F", "o", "u", "n", "d">>,
          args |-> <<MethodNameOf(d), ParamsOf(d)>>, status |-> 404]

\* The events emitted so far
Emitted == [i \in 1..Len(delivered) |-> ServerCallback(delivered[i])]

ListenerSets == {{}, {<<"x">>}, {<<"x">>, <<"1">>}}
ReplyErrors == {Null, Undefined, MkObj(<<<<<<"a">>, MkInt(-7)>>>>)}
ReplyValues == {MkInt(12), MkArr(<<Null, MkBool(TRUE)>>)}

InitServer ==
    /\ InitDeserializer
    /\ input = Null
    /\ frames = <<>>
    /\ xml = <<>>
    /\ pending = <<>>
    /\ pc = "events"
    /\ queue = <<>>
    /\ opts = DEFAULT_OPTIONS
    /\ others = <<>>
    /\ calls = <<>>
    /\ jar = <<>>
    /\ now = 0
    /\ headers = Undefined
    /\ reported = <<>>
    /\ listeners \in ListenerSets

\* A listener of a method event calls the reply function it was given
Reply ==
    /\ pc = "events"
    /\ Len(calls) < MaxReplies
    /\ \E i \in 1..Len(delivered) : HasListener(delivered[i])
    /\ \E err \in ReplyErrors, val \in ReplyValues :
          calls' = Append(calls,
                          <<"reply", err, val, 200,
                            IF err \notin {Null, Undefined}
                            THEN serializeFault(err, opts)
                            ELSE serializeMethodResponse(val, opts)>>)
    /\ UNCHANGED <<others>>
    /\ UNCHANGED cliVars
    /\ UNCHANGED desVars
    /\ UNCHANGED serVars

NextServer ==
    \/ DeserializeMethodCall
    \/ Opentag
    \/ Closetag
    \/ Text
    \/ CData
    \/ ParserEnd
    \/ ParserError
    \/ StreamError
    \/ Reply

SpecServer == InitServer /\ [][NextServer]_vars

\* The events emitted for the request that are method events, and not
IsMethodEvent(i) == Emitted[i].status = 0
MethodEvents == {i \in 1..Len(delivered) : IsMethodEvent(i)}
NotFoundEvents == {i \in 1..Len(delivered) : ~IsMethodEvent(i)}

\* The first child element of the root of a document
FirstChild(x) == x[x[1].kids[1][2]].name

\* C28: once the body is decoded, a method call whose name has a listener
\* is answered by one method event with (null, params, reply), no 404, and
\* what is written is what reply wrote: status 200 with a fault document
\* when its error is non-null, a method response document otherwise; in
\* every other case NotFound is emitted once, 404 is written and no method
\* listener runs.
C28_ServerOutcome ==
    delivered # <<>> =>
        IF HasListener(delivered[1])
        THEN /\ Cardinality(MethodEvents) = 1
             /\ NotFoundEvents = {}
             /\ Emitted[1].args = <<Null, ParamsOf(delivered[1]), "reply">>
             /\ \A k \in 1..Len(calls) :
                    /\ calls[k][4] = 200
                    /\ FirstChild(calls[k][5]) =
                          IF calls[k][2] \in {Null, Undefined} THEN "params" ELSE "fault"
        ELSE /\ Cardinality(NotFoundEvents) = 1
             /\ MethodEvents = {}
             /\ calls = <<>>

====
